---------------------------- MODULE Spec2Model ----------------------------
(***************************************************************************)
(* Model of the Wi-Fi card inventory of OpenHD SysUtils                    *)
(* (src/src/sysutil_wifi.cpp): the profile catalog, the two override       *)
(* stores kept as key=value text files, the per-interface policy           *)
(* resolution, the sysutil.wifi.update request handler and the            *)
(* sysutil.link.control handler with its round trip on the control socket. *)
(*                                                                         *)
(* A std::string is a sequence of one-character strings, so trimming, case *)
(* folding, ID normalisation, number formatting and the writing and        *)
(* parsing of the override files are computed character by character as    *)
(* the code computes them.  A std::optional is a record                    *)
(* [has_value, value].  An unordered_map is a function over its keys.      *)
(***************************************************************************)
EXTENDS Integers, Sequences, FiniteSets, TLC

(***************************************************************************)
(* String literals of the source.                                          *)
(***************************************************************************)
kOverridesHeader == <<"#"," ","O","p","e","n","H","D"," ","S","y","s","U","t","i","l","s"," ","W","i","-","F","i"," ","o","v","e","r","r","i","d","e","s">>
kTxPowerOverridesHeader == <<"#"," ","O","p","e","n","H","D"," ","S","y","s","U","t","i","l","s"," ","W","i","-","F","i"," ","T","X"," ","p","o","w","e","r"," ","o","v","e","r","r","i","d","e","s">>
K_TX_POWER == <<"T","X","_","P","O","W","E","R">>
K_TX_POWER_HIGH == <<"T","X","_","P","O","W","E","R","_","H","I","G","H">>
K_TX_POWER_LOW == <<"T","X","_","P","O","W","E","R","_","L","O","W">>
K_CARD_NAME == <<"C","A","R","D","_","N","A","M","E">>
K_POWER_LEVEL == <<"P","O","W","E","R","_","L","E","V","E","L">>
K_PROFILE_VENDOR_ID == <<"P","R","O","F","I","L","E","_","V","E","N","D","O","R","_","I","D">>
K_PROFILE_DEVICE_ID == <<"P","R","O","F","I","L","E","_","D","E","V","I","C","E","_","I","D">>
K_PROFILE_CHIPSET == <<"P","R","O","F","I","L","E","_","C","H","I","P","S","E","T">>
W_card_name == <<".","c","a","r","d","_","n","a","m","e","=">>
W_power_level == <<".","p","o","w","e","r","_","l","e","v","e","l","=">>
W_profile_vendor_id == <<".","p","r","o","f","i","l","e","_","v","e","n","d","o","r","_","i","d","=">>
W_profile_device_id == <<".","p","r","o","f","i","l","e","_","d","e","v","i","c","e","_","i","d","=">>
W_profile_chipset == <<".","p","r","o","f","i","l","e","_","c","h","i","p","s","e","t","=">>
W_tx_power == <<".","t","x","_","p","o","w","e","r","=">>
W_tx_power_high == <<".","t","x","_","p","o","w","e","r","_","h","i","g","h","=">>
W_tx_power_low == <<".","t","x","_","p","o","w","e","r","_","l","o","w","=">>
S_DISABLED == <<"D","I","S","A","B","L","E","D">>
S_AUTO == <<"A","U","T","O">>
S_FIXED == <<"F","I","X","E","D">>
S_MW == <<"M","W">>
S_LOWEST == <<"L","O","W","E","S","T">>
S_LOW == <<"L","O","W">>
S_MID == <<"M","I","D">>
S_HIGH == <<"H","I","G","H">>
S_UNKNOWN == <<"U","N","K","N","O","W","N">>
S_QUALCOMM == <<"Q","U","A","L","C","O","M","M">>
S_ATHEROS == <<"A","T","H","E","R","O","S">>
S_RALINK == <<"R","A","L","I","N","K">>
S_INTEL == <<"I","N","T","E","L">>
S_BROADCOM == <<"B","R","O","A","D","C","O","M">>
S_AIC == <<"A","I","C">>
S_OPENHD_RTL_88X2AU == <<"O","P","E","N","H","D","_","R","T","L","_","8","8","X","2","A","U">>
S_OPENHD_RTL_88X2CU == <<"O","P","E","N","H","D","_","R","T","L","_","8","8","X","2","C","U">>
S_OPENHD_RTL_88X2BU == <<"O","P","E","N","H","D","_","R","T","L","_","8","8","X","2","B","U">>
S_OPENHD_RTL_88X2EU == <<"O","P","E","N","H","D","_","R","T","L","_","8","8","X","2","E","U">>
S_OPENHD_RTL_8852BU == <<"O","P","E","N","H","D","_","R","T","L","_","8","8","5","2","B","U">>
S_RTL_88X2AU == <<"R","T","L","_","8","8","X","2","A","U">>
S_RTL_88X2BU == <<"R","T","L","_","8","8","X","2","B","U">>
S_MT_7921u == <<"M","T","_","7","9","2","1","u">>
S_mw == <<"m","w">>
S_OPENHD_PREFIX == <<"O","P","E","N","H","D","_">>
S_0x == <<"0","x">>
S_0X == <<"0","X">>
A_set == <<"s","e","t">>
A_clear == <<"c","l","e","a","r">>
A_refresh == <<"r","e","f","r","e","s","h">>
A_detect == <<"d","e","t","e","c","t">>
D_rtl88xxau_ohd == <<"r","t","l","8","8","x","x","a","u","_","o","h","d">>
D_rtl88x2au_ohd == <<"r","t","l","8","8","x","2","a","u","_","o","h","d">>
D_rtl88x2bu_ohd == <<"r","t","l","8","8","x","2","b","u","_","o","h","d">>
D_rtl88x2eu_ohd == <<"r","t","l","8","8","x","2","e","u","_","o","h","d">>
D_cnss_pci == <<"c","n","s","s","_","p","c","i">>
D_rtl8852bu_ohd == <<"r","t","l","8","8","5","2","b","u","_","o","h","d">>
D_rtl88x2cu_ohd == <<"r","t","l","8","8","x","2","c","u","_","o","h","d">>
D_ath9k == <<"a","t","h","9","k">>
D_rt2800usb == <<"r","t","2","8","0","0","u","s","b">>
D_iwlwifi == <<"i","w","l","w","i","f","i">>
D_brcmfmac == <<"b","r","c","m","f","m","a","c">>
D_bcmsdh_sdmmc == <<"b","c","m","s","d","h","_","s","d","m","m","c">>
D_aicwf_sdio == <<"a","i","c","w","f","_","s","d","i","o">>
D_rtw_8822bu == <<"r","t","w","_","8","8","2","2","b","u">>
D_mt7921u == <<"m","t","7","9","2","1","u">>
D_88xxau == <<"8","8","x","x","a","u">>
S_RaspberryInternal == <<"R","a","s","p","b","e","r","r","y"," ","I","n","t","e","r","n","a","l">>
S_LBLink8812eu == <<"L","B","-","L","i","n","k"," ","8","8","1","2","e","u">>
S_id_02D0 == <<"0","x","0","2","D","0">>
S_id_A9A6 == <<"0","x","A","9","A","6">>
S_id_0BDA == <<"0","x","0","B","D","A">>
S_id_A81A == <<"0","x","A","8","1","A">>
S_type_update_response == <<"s","y","s","u","t","i","l",".","w","i","f","i",".","u","p","d","a","t","e",".","r","e","s","p","o","n","s","e">>
S_type_wifi_response == <<"s","y","s","u","t","i","l",".","w","i","f","i",".","r","e","s","p","o","n","s","e">>

(***************************************************************************)
(* Values of the scenarios: interface names, MAC addresses and the field   *)
(* values carried by requests and files.                                   *)
(***************************************************************************)
I_wlan0 == <<"w","l","a","n","0">>
I_wlan1 == <<"w","l","a","n","1">>
V_mac_wlan0 == <<"0","2",":","0","0",":","0","0",":","0","0",":","0","0",":","0","1">>
V_mac_wlan1 == <<"0","2",":","0","0",":","0","0",":","0","0",":","0","0",":","0","2">>
V_reset == <<"r","e","s","e","t">>
V_auto == <<"a","u","t","o">>
V_disabled == <<"d","i","s","a","b","l","e","d">>
V_high == <<"h","i","g","h">>
V_blank == <<" ">>
V_Rig == <<"R","i","g">>
V_100 == <<"1","0","0">>
V_200 == <<"2","0","0">>
V_02d0 == <<"0","2","d","0">>
V_a9a6 == <<"a","9","a","6">>
V_0bda == <<"0","b","d","a">>
V_a81a == <<"a","8","1","a">>
V_1234 == <<"1","2","3","4">>
V_fixed == <<"f","i","x","e","d">>
V_openhd_rtl_88x2eu == <<"o","p","e","n","h","d","_","r","t","l","_","8","8","x","2","e","u">>
V_OTHER == <<"O","T","H","E","R">>
V_id_1234 == <<"0","x","1","2","3","4">>
V_id_9999 == <<"0","x","9","9","9","9">>
V_0x0bda == <<"0","x","0","b","d","a">>
V_Disabled == <<"D","i","s","a","b","l","e","d">>
V_padded_type == <<" ","o","p","e","n","h","d","_","x"," ">>
V_openhd_x == <<"o","p","e","n","h","d","_","x">>
V_800 == <<"8","0","0">>
V_1000 == <<"1","0","0","0">>

V_broadcom == <<"b","r","o","a","d","c","o","m">>
(***************************************************************************)
(* String literals of the link-control handler.                           *)
(***************************************************************************)
S_type_link_control == <<"s","y","s","u","t","i","l",".","l","i","n","k",".","c","o","n","t","r","o","l">>
M_no_rf_values == <<"N","o"," ","R","F"," ","v","a","l","u","e","s"," ","p","r","o","v","i","d","e","d",".">>
M_width_40_disabled == <<"4","0"," ","M","H","z"," ","c","h","a","n","n","e","l"," ","w","i","d","t","h"," ","i","s"," ","d","i","s","a","b","l","e","d",".">>
M_socket_not_available == <<"O","p","e","n","H","D"," ","c","o","n","t","r","o","l"," ","s","o","c","k","e","t"," ","n","o","t"," ","a","v","a","i","l","a","b","l","e",".">>
M_rejected == <<"O","p","e","n","H","D"," ","r","e","j","e","c","t","e","d"," ","t","h","e"," ","R","F"," ","u","p","d","a","t","e",".">>
J_request_open == <<"{","\"","t","y","p","e","\"",":","\"","o","p","e","n","h","d",".","l","i","n","k",".","c","o","n","t","r","o","l","\"">>
J_interface == <<",","\"","i","n","t","e","r","f","a","c","e","\"",":","\"">>
J_frequency_mhz == <<",","\"","f","r","e","q","u","e","n","c","y","_","m","h","z","\"",":">>
J_channel_width_mhz == <<",","\"","c","h","a","n","n","e","l","_","w","i","d","t","h","_","m","h","z","\"",":">>
J_mcs_index == <<",","\"","m","c","s","_","i","n","d","e","x","\"",":">>
J_tx_power_mw == <<",","\"","t","x","_","p","o","w","e","r","_","m","w","\"",":">>
J_tx_power_index == <<",","\"","t","x","_","p","o","w","e","r","_","i","n","d","e","x","\"",":">>
J_power_level == <<",","\"","p","o","w","e","r","_","l","e","v","e","l","\"",":","\"">>
J_response_open == <<"{","\"","t","y","p","e","\"",":","\"","s","y","s","u","t","i","l",".","l","i","n","k",".","c","o","n","t","r","o","l",".","r","e","s","p","o","n","s","e","\"",",","\"","o","k","\"",":">>
J_message == <<",","\"","m","e","s","s","a","g","e","\"",":","\"">>
J_true == <<"t","r","u","e">>
J_false == <<"f","a","l","s","e">>
F_ok == <<"o","k">>
F_message == <<"m","e","s","s","a","g","e">>

\* Lines a peer answers with, and values of the link-control scenarios.
R_ok_true == <<"{","\"","o","k","\"",":","t","r","u","e","}">>
R_ok_false == <<"{","\"","o","k","\"",":","f","a","l","s","e","}">>
R_ok_false_busy == <<"{","\"","o","k","\"",":","f","a","l","s","e",",","\"","m","e","s","s","a","g","e","\"",":","\"","b","u","s","y","\"","}">>
R_ok_false_blank == <<"{","\"","o","k","\"",":","f","a","l","s","e",",","\"","m","e","s","s","a","g","e","\"",":","\"","\"","}">>
R_ok_true_applied == <<"{","\"","o","k","\"",":","t","r","u","e",",","\"","m","e","s","s","a","g","e","\"",":","\"","a","p","p","l","i","e","d","\"","}">>
R_message_only == <<"{","\"","m","e","s","s","a","g","e","\"",":","\"","l","a","t","e","r","\"","}">>
R_not_json == <<"p","o","n","g">>
V_busy == <<"b","u","s","y">>
V_applied == <<"a","p","p","l","i","e","d">>
V_later == <<"l","a","t","e","r">>
V_level_padded == <<" ","h","i","g","h"," ">>
V_quoted_iface == <<"w","l","\"","0">>


LowerCase == <<"a","b","c","d","e","f","g","h","i","j","k","l","m","n","o","p","q","r","s","t","u","v","w","x","y","z">>
UpperCase == <<"A","B","C","D","E","F","G","H","I","J","K","L","M","N","O","P","Q","R","S","T","U","V","W","X","Y","Z">>
Digits == <<"0","1","2","3","4","5","6","7","8","9">>

(***************************************************************************)
(* std::optional and std::unordered_map.                                   *)
(***************************************************************************)
Nothing == [has_value |-> FALSE, value |-> <<>>]
Some(v) == [has_value |-> TRUE, value |-> v]
NoInt == [has_value |-> FALSE, value |-> 0]
value_or(opt, dflt) == IF opt.has_value THEN opt.value ELSE dflt

EmptyMap == <<>>
MapPut(m, k, v) == [x \in (DOMAIN m) \cup {k} |-> IF x = k THEN v ELSE m[x]]
MapErase(m, k) == [x \in (DOMAIN m) \ {k} |-> m[x]]

SetMin(S) == CHOOSE x \in S : \A y \in S : x <= y

(***************************************************************************)
(* Text utilities.                                                         *)
(***************************************************************************)
\* The vertical tab (0x0B), which has no escape in a string: the character
\* itself stands between the quotes.
VerticalTab == ""

\* std::isspace in the C locale.
isspace(ch) == ch \in {" ", "\t", "\n", "\r", "\f", VerticalTab}

RECURSIVE first_not_space(_, _)
first_not_space(value, i) ==
  IF i > Len(value) THEN i
  ELSE IF isspace(value[i]) THEN first_not_space(value, i + 1) ELSE i

RECURSIVE last_not_space(_, _)
last_not_space(value, i) ==
  IF i < 1 THEN 0
  ELSE IF isspace(value[i]) THEN last_not_space(value, i - 1) ELSE i

trim_copy(value) ==
  LET first == first_not_space(value, 1)
  IN IF first > Len(value) THEN <<>>
     ELSE SubSeq(value, first, last_not_space(value, Len(value)))

ToUpperTable ==
  [ch \in {LowerCase[i] : i \in 1..26} |->
     UpperCase[CHOOSE i \in 1..26 : LowerCase[i] = ch]]

toupper(ch) == IF ch \in DOMAIN ToUpperTable THEN ToUpperTable[ch] ELSE ch

to_upper(value) == [i \in 1..Len(value) |-> toupper(value[i])]

equal_after_uppercase(lhs, rhs) == to_upper(lhs) = to_upper(rhs)

\* std::string::find(ch): 1-based position of the first ch, 0 for npos.
RECURSIVE str_find_from(_, _, _)
str_find_from(s, ch, i) ==
  IF i > Len(s) THEN 0
  ELSE IF s[i] = ch THEN i ELSE str_find_from(s, ch, i + 1)

str_find(s, ch) == str_find_from(s, ch, 1)

\* s.rfind(prefix, 0) == 0
starts_with(s, prefix) ==
  Len(s) >= Len(prefix) /\ SubSeq(s, 1, Len(prefix)) = prefix

str_contains(haystack, needle) ==
  \E i \in 1..(Len(haystack) - Len(needle) + 1) :
     SubSeq(haystack, i, i + Len(needle) - 1) = needle

contains_after_uppercase(haystack, needle) ==
  str_contains(to_upper(haystack), to_upper(needle))

RECURSIVE to_string(_)
to_string(value) ==
  IF value < 0 THEN <<"-">> \o to_string(0 - value)
  ELSE IF value < 10 THEN <<Digits[value + 1]>>
  ELSE to_string(value \div 10) \o <<Digits[(value % 10) + 1]>>

to_string_if(value) == IF value <= 0 THEN <<>> ELSE to_string(value)

normalize_id(value) ==
  LET v == trim_copy(value)
  IN IF v = <<>> THEN <<>>
     ELSE IF starts_with(v, S_0x) \/ starts_with(v, S_0X)
          THEN S_0x \o to_upper(SubSeq(v, 3, Len(v)))
          ELSE S_0x \o to_upper(v)

normalize_chipset(value) == to_upper(trim_copy(value))

(***************************************************************************)
(* Type-override store: lines "iface=type".                                *)
(***************************************************************************)
RECURSIVE load_overrides_from(_, _, _)
load_overrides_from(lines, i, acc) ==
  IF i > Len(lines) THEN acc
  ELSE
    LET line == trim_copy(lines[i])
        pos == str_find(line, "=")
        iface == trim_copy(SubSeq(line, 1, pos - 1))
        type == trim_copy(SubSeq(line, pos + 1, Len(line)))
    IN IF line = <<>> \/ line[1] = "#" THEN load_overrides_from(lines, i + 1, acc)
       ELSE IF pos = 0 THEN load_overrides_from(lines, i + 1, acc)
       ELSE IF iface = <<>> \/ type = <<>> THEN load_overrides_from(lines, i + 1, acc)
       ELSE load_overrides_from(lines, i + 1, MapPut(acc, iface, type))

load_overrides(file) == load_overrides_from(file, 1, EmptyMap)

\* What the insertions of a writer add up to: the text handed to the
\* stream.
RECURSIVE stream_text(_)
stream_text(insertions) ==
  IF insertions = <<>> THEN <<>>
  ELSE Head(insertions) \o stream_text(Tail(insertions))

\* The lines std::getline reads from a file that holds text: a line ends at
\* each newline, and what follows the last newline is a line when it is
\* not empty.
RECURSIVE getline_lines(_)
getline_lines(text) ==
  IF text = <<>> THEN <<>>
  ELSE LET nl == str_find(text, "\n")
       IN IF nl = 0 THEN <<text>>
          ELSE <<SubSeq(text, 1, nl - 1)>>
               \o getline_lines(SubSeq(text, nl + 1, Len(text)))

\* The insertions (operator<<) of write_overrides for the entries of data,
\* visited in the order `order` (the iteration order of the unordered_map).
RECURSIVE write_overrides_entries(_, _, _)
write_overrides_entries(data, order, i) ==
  IF i > Len(order) THEN <<>>
  ELSE <<order[i], <<"=">>, data[order[i]], <<"\n">> >>
       \o write_overrides_entries(data, order, i + 1)

write_overrides_insertions(data, order) ==
  <<kOverridesHeader \o <<"\n">> >> \o write_overrides_entries(data, order, 1)

\* The file write_overrides writes, as the lines read back from it.
write_overrides(data, order) ==
  getline_lines(stream_text(write_overrides_insertions(data, order)))

(***************************************************************************)
(* Power-override store: lines "iface.field=value".                        *)
(***************************************************************************)
EmptyTxPowerOverride ==
  [tx_power |-> <<>>, tx_power_high |-> <<>>, tx_power_low |-> <<>>,
   card_name |-> <<>>, power_level |-> <<>>, profile_vendor_id |-> <<>>,
   profile_device_id |-> <<>>, profile_chipset |-> <<>>]

has_tx_power_values(entry) ==
  \/ entry.tx_power # <<>> \/ entry.tx_power_high # <<>>
  \/ entry.tx_power_low # <<>> \/ entry.card_name # <<>>
  \/ entry.power_level # <<>> \/ entry.profile_vendor_id # <<>>
  \/ entry.profile_device_id # <<>> \/ entry.profile_chipset # <<>>

\* overrides[iface]: the entry, default-constructed when absent.
TxEntry(overrides, iface) ==
  IF iface \in DOMAIN overrides THEN overrides[iface] ELSE EmptyTxPowerOverride

load_tx_field(entry, field_upper, value) ==
  IF field_upper = K_TX_POWER THEN [entry EXCEPT !.tx_power = value]
  ELSE IF field_upper = K_TX_POWER_HIGH THEN [entry EXCEPT !.tx_power_high = value]
  ELSE IF field_upper = K_TX_POWER_LOW THEN [entry EXCEPT !.tx_power_low = value]
  ELSE IF field_upper = K_CARD_NAME THEN [entry EXCEPT !.card_name = value]
  ELSE IF field_upper = K_POWER_LEVEL THEN [entry EXCEPT !.power_level = value]
  ELSE IF field_upper = K_PROFILE_VENDOR_ID
       THEN [entry EXCEPT !.profile_vendor_id = normalize_id(value)]
  ELSE IF field_upper = K_PROFILE_DEVICE_ID
       THEN [entry EXCEPT !.profile_device_id = normalize_id(value)]
  ELSE IF field_upper = K_PROFILE_CHIPSET
       THEN [entry EXCEPT !.profile_chipset = normalize_chipset(value)]
  ELSE entry

RECURSIVE load_tx_power_overrides_from(_, _, _)
load_tx_power_overrides_from(lines, i, acc) ==
  IF i > Len(lines) THEN acc
  ELSE
    LET line == trim_copy(lines[i])
        pos == str_find(line, "=")
        key == trim_copy(SubSeq(line, 1, pos - 1))
        value == trim_copy(SubSeq(line, pos + 1, Len(line)))
        dot == str_find(key, ".")
        iface == trim_copy(SubSeq(key, 1, dot - 1))
        field == trim_copy(SubSeq(key, dot + 1, Len(key)))
    IN IF line = <<>> \/ line[1] = "#" THEN load_tx_power_overrides_from(lines, i + 1, acc)
       ELSE IF pos = 0 THEN load_tx_power_overrides_from(lines, i + 1, acc)
       ELSE IF key = <<>> THEN load_tx_power_overrides_from(lines, i + 1, acc)
       ELSE IF dot = 0 THEN load_tx_power_overrides_from(lines, i + 1, acc)
       ELSE IF iface = <<>> \/ field = <<>> THEN load_tx_power_overrides_from(lines, i + 1, acc)
       ELSE load_tx_power_overrides_from(lines, i + 1,
              MapPut(acc, iface, load_tx_field(TxEntry(acc, iface), to_upper(field), value)))

load_tx_power_overrides(file) == load_tx_power_overrides_from(file, 1, EmptyMap)

\* A writer that puts the profile fields first, then name and level, then
\* the raw power fields.
write_tx_entry_insertions_profile_first(iface, values) ==
  (IF values.profile_vendor_id # <<>>
   THEN <<iface, W_profile_vendor_id, values.profile_vendor_id, <<"\n">> >> ELSE <<>>) \o
  (IF values.profile_device_id # <<>>
   THEN <<iface, W_profile_device_id, values.profile_device_id, <<"\n">> >> ELSE <<>>) \o
  (IF values.profile_chipset # <<>>
   THEN <<iface, W_profile_chipset, values.profile_chipset, <<"\n">> >> ELSE <<>>) \o
  (IF values.card_name # <<>>
   THEN <<iface, W_card_name, values.card_name, <<"\n">> >> ELSE <<>>) \o
  (IF values.power_level # <<>>
   THEN <<iface, W_power_level, values.power_level, <<"\n">> >> ELSE <<>>) \o
  (IF values.tx_power # <<>>
   THEN <<iface, W_tx_power, values.tx_power, <<"\n">> >> ELSE <<>>) \o
  (IF values.tx_power_high # <<>>
   THEN <<iface, W_tx_power_high, values.tx_power_high, <<"\n">> >> ELSE <<>>) \o
  (IF values.tx_power_low # <<>>
   THEN <<iface, W_tx_power_low, values.tx_power_low, <<"\n">> >> ELSE <<>>)

\* The insertions made for one interface, in the order of the writer's
\* if-statements: the interface, the literal up to "=", the value and the
\* newline of each field that is not empty.
write_tx_entry_insertions(iface, values) ==
  (IF values.card_name # <<>>
   THEN <<iface, W_card_name, values.card_name, <<"\n">> >> ELSE <<>>) \o
  (IF values.power_level # <<>>
   THEN <<iface, W_power_level, values.power_level, <<"\n">> >> ELSE <<>>) \o
  (IF values.profile_vendor_id # <<>>
   THEN <<iface, W_profile_vendor_id, values.profile_vendor_id, <<"\n">> >> ELSE <<>>) \o
  (IF values.profile_device_id # <<>>
   THEN <<iface, W_profile_device_id, values.profile_device_id, <<"\n">> >> ELSE <<>>) \o
  (IF values.profile_chipset # <<>>
   THEN <<iface, W_profile_chipset, values.profile_chipset, <<"\n">> >> ELSE <<>>) \o
  (IF values.tx_power # <<>>
   THEN <<iface, W_tx_power, values.tx_power, <<"\n">> >> ELSE <<>>) \o
  (IF values.tx_power_high # <<>>
   THEN <<iface, W_tx_power_high, values.tx_power_high, <<"\n">> >> ELSE <<>>) \o
  (IF values.tx_power_low # <<>>
   THEN <<iface, W_tx_power_low, values.tx_power_low, <<"\n">> >> ELSE <<>>)

\* The lines read back from what is written for one interface.
write_tx_entry_lines(iface, values) ==
  getline_lines(stream_text(write_tx_entry_insertions(iface, values)))

RECURSIVE write_tx_power_entries_insertions(_, _, _)
write_tx_power_entries_insertions(data, order, i) ==
  IF i > Len(order) THEN <<>>
  ELSE (IF ~has_tx_power_values(data[order[i]]) THEN <<>>
        ELSE write_tx_entry_insertions(order[i], data[order[i]]))
       \o write_tx_power_entries_insertions(data, order, i + 1)

\* The lines read back from what is written after the header.
write_tx_power_entries(data, order, i) ==
  getline_lines(stream_text(write_tx_power_entries_insertions(data, order, i)))

write_tx_power_overrides_insertions(data, order) ==
  <<kTxPowerOverridesHeader \o <<"\n">> >>
  \o write_tx_power_entries_insertions(data, order, 1)

\* The file write_tx_power_overrides writes, as the lines read back from it.
write_tx_power_overrides(data, order) ==
  getline_lines(stream_text(write_tx_power_overrides_insertions(data, order)))

(***************************************************************************)
(* The std::ofstream of the writers.  The stream keeps what is inserted in *)
(* a buffer and hands it to the file when an insertion does not fit or is  *)
(* long (basic_filebuf::xsputn of the C++ library the program is built     *)
(* with), else when the stream is closed, after the writer has tested it.  *)
(***************************************************************************)
\* Characters the buffer of a std::ofstream takes, and the length from
\* which an insertion goes to the file at once.
kStreamBufferAvail == 8191
kStreamChunk == 1024

\* The lengths of the insertions.
insertion_lengths(insertions) ==
  [i \in 1..Len(insertions) |-> Len(insertions[i])]

\* The characters handed to the file before the writer tests the stream:
\* `used` characters are in the buffer, `done` have been handed over.  An
\* insertion that does not fit or is long goes to the file together with
\* the buffer.
RECURSIVE handed_over(_, _, _)
handed_over(pieces, used, done) ==
  IF pieces = <<>> THEN done
  ELSE LET avail == kStreamBufferAvail - used
           limit == IF kStreamChunk < avail THEN kStreamChunk ELSE avail
       IN IF Head(pieces) >= limit
          THEN handed_over(Tail(pieces), 0, done + used + Head(pieces))
          ELSE handed_over(Tail(pieces), used + Head(pieces), done)

\* A file that may grow without limit (RLIM_INFINITY).
RLIM_INFINITY == 2147483647

\* What the stream returns at the writer's test: false when the file could
\* not be opened or when the file, which takes `room` characters and
\* refuses the rest, was handed more before the test.
stream_good(opened, insertions, room) ==
  opened /\ handed_over(insertion_lengths(insertions), 0, 0) <= room

\* The file a writer leaves once its stream is closed: opening empties it,
\* and it takes the first `room` characters of what is inserted.
stream_file(insertions, room) ==
  getline_lines(SubSeq(stream_text(insertions), 1,
                       IF room < Len(stream_text(insertions)) THEN room
                       ELSE Len(stream_text(insertions))))

\* The orders in which an unordered_map with these keys may be iterated.
IterationOrders(keys) ==
  {order \in [1..Cardinality(keys) -> keys] :
     \A i, j \in 1..Cardinality(keys) : order[i] = order[j] => i = j}

(***************************************************************************)
(* Profile catalog.                                                        *)
(***************************************************************************)
\* A catalog object as seen through extract_string_field, extract_int_field
\* and extract_object_field: every field is optional.
NoLevels ==
  [has_value |-> FALSE,
   value |-> [lowest |-> NoInt, low |-> NoInt, mid |-> NoInt, high |-> NoInt]]

WifiCardProfile(vendor_id, device_id, chipset, name, power_mode) ==
  [vendor_id |-> vendor_id, device_id |-> device_id, chipset |-> chipset,
   name |-> name, power_mode |-> power_mode,
   min_mw |-> 0, max_mw |-> 0, lowest_mw |-> 0, low_mw |-> 0, mid_mw |-> 0,
   high_mw |-> 0]

default_wifi_card_profiles ==
  << WifiCardProfile(normalize_id(S_id_02D0), normalize_id(S_id_A9A6),
                     normalize_chipset(S_BROADCOM), S_RaspberryInternal, S_FIXED),
     [WifiCardProfile(normalize_id(S_id_0BDA), normalize_id(S_id_A81A),
                      normalize_chipset(S_OPENHD_RTL_88X2EU), S_LBLink8812eu, S_MW)
        EXCEPT !.min_mw = 25, !.max_mw = 1000, !.lowest_mw = 25,
               !.low_mw = 100, !.mid_mw = 500, !.high_mw = 1000] >>

RECURSIVE first_positive(_)
first_positive(values) ==
  IF values = <<>> THEN 0
  ELSE IF Head(values) > 0 THEN Head(values)
  ELSE first_positive(Tail(values))

\* Flat figures, each absent figure read as 0.
parse_flat_figures(profile, object) ==
  [profile EXCEPT !.min_mw = value_or(object.min_mw, 0),
                  !.max_mw = value_or(object.max_mw, 0),
                  !.lowest_mw = value_or(object.lowest, 0),
                  !.low_mw = value_or(object.low, 0),
                  !.mid_mw = value_or(object.mid, 0),
                  !.high_mw = value_or(object.high, 0)]

\* Nested levels_mw figures fill only the level figures that are still <= 0.
parse_nested_levels(profile, object) ==
  IF ~object.levels_mw.has_value THEN profile
  ELSE LET levels == object.levels_mw.value
       IN [profile EXCEPT
             !.lowest_mw = IF profile.lowest_mw <= 0 THEN value_or(levels.lowest, 0) ELSE @,
             !.low_mw = IF profile.low_mw <= 0 THEN value_or(levels.low, 0) ELSE @,
             !.mid_mw = IF profile.mid_mw <= 0 THEN value_or(levels.mid, 0) ELSE @,
             !.high_mw = IF profile.high_mw <= 0 THEN value_or(levels.high, 0) ELSE @]

\* The six backfill statements; each one sees the figures as the earlier
\* ones left them.
backfill_min_mw(profile) ==
  IF profile.min_mw <= 0
  THEN [profile EXCEPT !.min_mw = first_positive(
          <<profile.lowest_mw, profile.low_mw, profile.mid_mw, profile.high_mw>>)]
  ELSE profile

backfill_max_mw(profile) ==
  IF profile.max_mw <= 0
  THEN [profile EXCEPT !.max_mw = first_positive(
          <<profile.high_mw, profile.mid_mw, profile.low_mw, profile.lowest_mw>>)]
  ELSE profile

backfill_lowest_mw(profile) ==
  IF profile.lowest_mw <= 0
  THEN [profile EXCEPT !.lowest_mw = first_positive(
          <<profile.low_mw, profile.mid_mw, profile.high_mw, profile.min_mw>>)]
  ELSE profile

backfill_low_mw(profile) ==
  IF profile.low_mw <= 0
  THEN [profile EXCEPT !.low_mw = first_positive(
          <<profile.lowest_mw, profile.mid_mw, profile.high_mw, profile.min_mw>>)]
  ELSE profile

backfill_mid_mw(profile) ==
  IF profile.mid_mw <= 0
  THEN [profile EXCEPT !.mid_mw = first_positive(
          <<profile.low_mw, profile.high_mw, profile.max_mw>>)]
  ELSE profile

backfill_high_mw(profile) ==
  IF profile.high_mw <= 0
  THEN [profile EXCEPT !.high_mw = first_positive(
          <<profile.max_mw, profile.mid_mw, profile.low_mw, profile.lowest_mw>>)]
  ELSE profile

backfill_figures(profile) ==
  backfill_high_mw(backfill_mid_mw(backfill_low_mw(
    backfill_lowest_mw(backfill_max_mw(backfill_min_mw(profile))))))

\* The profile built from one catalog object that has vendor_id and device_id.
parse_card_profile(object) ==
  LET profile ==
        WifiCardProfile(normalize_id(object.vendor_id.value),
                        normalize_id(object.device_id.value),
                        normalize_chipset(value_or(object.chipset, <<>>)),
                        value_or(object.name, <<>>),
                        to_upper(value_or(object.power_mode, S_mw)))
  IN IF profile.power_mode = S_FIXED THEN profile
     ELSE backfill_figures(parse_nested_levels(parse_flat_figures(profile, object), object))

RECURSIVE parse_card_profiles(_)
parse_card_profiles(objects) ==
  IF objects = <<>> THEN <<>>
  ELSE (IF ~Head(objects).vendor_id.has_value \/ ~Head(objects).device_id.has_value
        THEN <<>>
        ELSE <<parse_card_profile(Head(objects))>>)
       \o parse_card_profiles(Tail(objects))

\* file: [readable, cards]; cards is what extract_array_objects yields.
load_wifi_card_profiles(file) ==
  IF ~file.readable THEN default_wifi_card_profiles
  ELSE IF file.cards = <<>> THEN default_wifi_card_profiles
  ELSE LET profiles == parse_card_profiles(file.cards)
       IN IF profiles = <<>> THEN default_wifi_card_profiles ELSE profiles

\* The returned pointer is the index of the profile in the list; 0 is nullptr.
RECURSIVE find_wifi_profile_scan(_, _, _, _, _, _, _)
find_wifi_profile_scan(profiles, vendor_id, device_id, chipset, i,
                       vendor_device_match, generic_match) ==
  IF i > Len(profiles)
  THEN IF generic_match # 0 THEN generic_match ELSE vendor_device_match
  ELSE
    LET profile == profiles[i]
    IN IF equal_after_uppercase(profile.vendor_id, vendor_id) /\
          equal_after_uppercase(profile.device_id, device_id)
       THEN IF profile.chipset = <<>>
            THEN find_wifi_profile_scan(profiles, vendor_id, device_id, chipset, i + 1,
                   IF vendor_device_match = 0 THEN i ELSE vendor_device_match,
                   IF generic_match = 0 THEN i ELSE generic_match)
            ELSE IF equal_after_uppercase(profile.chipset, chipset)
                 THEN i
                 ELSE find_wifi_profile_scan(profiles, vendor_id, device_id, chipset, i + 1,
                        IF vendor_device_match = 0 THEN i ELSE vendor_device_match,
                        generic_match)
       ELSE find_wifi_profile_scan(profiles, vendor_id, device_id, chipset, i + 1,
              vendor_device_match, generic_match)

\* A lookup that never compares chipsets: the first generic match, else the
\* first vendor/device match.
find_wifi_profile_ignoring_chipset(profiles, vendor_id, device_id, chipset) ==
  find_wifi_profile_scan(profiles, vendor_id, device_id, <<>>, 1, 0, 0)

find_wifi_profile(profiles, vendor_id, device_id, chipset) ==
  find_wifi_profile_scan(profiles, vendor_id, device_id, chipset, 1, 0, 0)

(***************************************************************************)
(* Classification.                                                         *)
(***************************************************************************)
driver_to_type(driver_name) ==
  IF equal_after_uppercase(driver_name, D_rtl88xxau_ohd) THEN S_OPENHD_RTL_88X2AU
  ELSE IF equal_after_uppercase(driver_name, D_rtl88x2au_ohd) THEN S_OPENHD_RTL_88X2CU
  ELSE IF equal_after_uppercase(driver_name, D_rtl88x2bu_ohd) THEN S_OPENHD_RTL_88X2BU
  ELSE IF equal_after_uppercase(driver_name, D_rtl88x2eu_ohd) THEN S_OPENHD_RTL_88X2EU
  ELSE IF equal_after_uppercase(driver_name, D_cnss_pci) THEN S_QUALCOMM
  ELSE IF equal_after_uppercase(driver_name, D_rtl8852bu_ohd) THEN S_OPENHD_RTL_8852BU
  ELSE IF equal_after_uppercase(driver_name, D_rtl88x2cu_ohd) THEN S_OPENHD_RTL_88X2CU
  ELSE IF contains_after_uppercase(driver_name, D_ath9k) THEN S_ATHEROS
  ELSE IF contains_after_uppercase(driver_name, D_rt2800usb) THEN S_RALINK
  ELSE IF contains_after_uppercase(driver_name, D_iwlwifi) THEN S_INTEL
  ELSE IF contains_after_uppercase(driver_name, D_brcmfmac) \/
          contains_after_uppercase(driver_name, D_bcmsdh_sdmmc) THEN S_BROADCOM
  ELSE IF contains_after_uppercase(driver_name, D_aicwf_sdio) THEN S_AIC
  ELSE IF contains_after_uppercase(driver_name, D_88xxau) THEN S_RTL_88X2AU
  ELSE IF contains_after_uppercase(driver_name, D_rtw_8822bu) THEN S_RTL_88X2BU
  ELSE IF contains_after_uppercase(driver_name, D_mt7921u) THEN S_MT_7921u
  ELSE S_UNKNOWN

is_openhd_wifibroadcast_type(type_name) ==
  LET type_upper == to_upper(trim_copy(type_name))
  IN IF type_upper = <<>> THEN FALSE ELSE starts_with(type_upper, S_OPENHD_PREFIX)

(***************************************************************************)
(* Policy resolution for one interface.                                    *)
(***************************************************************************)
\* What the sysfs reads of build_wifi_card and detect_wifi_cards find: the
\* interfaces that have a phy80211 node, in directory order, with the driver
\* name, phy index, MAC and vendor/device IDs already extracted.
Sysfs ==
  << [interface_name |-> I_wlan0, driver_name |-> D_rtl88x2eu_ohd, phy_index |-> 0,
      mac |-> V_mac_wlan0, vendor_id |-> S_id_0BDA, device_id |-> S_id_A81A],
     [interface_name |-> I_wlan1, driver_name |-> D_brcmfmac, phy_index |-> 1,
      mac |-> V_mac_wlan1, vendor_id |-> S_id_02D0, device_id |-> S_id_A9A6] >>

WifiCardInfo ==
  [interface_name |-> <<>>, driver_name |-> <<>>, phy_index |-> 0, mac |-> <<>>,
   vendor_id |-> <<>>, device_id |-> <<>>, detected_type |-> <<>>,
   override_type |-> <<>>, effective_type |-> <<>>, disabled |-> FALSE,
   tx_power |-> <<>>, tx_power_high |-> <<>>, tx_power_low |-> <<>>,
   card_name |-> <<>>, power_mode |-> <<>>, power_level |-> <<>>,
   power_lowest |-> <<>>, power_low |-> <<>>, power_mid |-> <<>>,
   power_high |-> <<>>, power_min |-> <<>>, power_max |-> <<>>]

\* Identity and detected type of the interface hw.
card_identity(hw) ==
  [WifiCardInfo EXCEPT !.interface_name = hw.interface_name,
                       !.driver_name = hw.driver_name,
                       !.phy_index = hw.phy_index,
                       !.mac = trim_copy(hw.mac),
                       !.vendor_id = hw.vendor_id,
                       !.device_id = hw.device_id,
                       !.detected_type = driver_to_type(hw.driver_name)]

\* A classification that knows DISABLED in capitals only.
card_classify_exact_case(card, overrides) ==
  IF card.interface_name \in DOMAIN overrides
  THEN LET override_type == overrides[card.interface_name]
       IN IF override_type = S_DISABLED
          THEN [card EXCEPT !.override_type = override_type, !.disabled = TRUE,
                            !.effective_type = card.detected_type]
          ELSE [card EXCEPT !.override_type = override_type,
                            !.effective_type = override_type]
  ELSE [card EXCEPT !.effective_type = card.detected_type]

\* override_type, effective_type and disabled.
card_classify(card, overrides) ==
  IF card.interface_name \in DOMAIN overrides
  THEN LET override_type == overrides[card.interface_name]
       IN IF equal_after_uppercase(override_type, S_DISABLED)
          THEN [card EXCEPT !.override_type = override_type, !.disabled = TRUE,
                            !.effective_type = card.detected_type]
          ELSE [card EXCEPT !.override_type = override_type,
                            !.effective_type = override_type]
  ELSE [card EXCEPT !.effective_type = card.detected_type]

\* A resolution that looks a pin up with the pinned chipset only, also when
\* none is pinned.
select_profile_pinned_chipset_only(card, tx_overrides, profiles) ==
  LET profile == find_wifi_profile(profiles, card.vendor_id, card.device_id,
                                   card.detected_type)
  IN IF card.interface_name \in DOMAIN tx_overrides
     THEN LET override_profile == tx_overrides[card.interface_name]
          IN IF override_profile.profile_vendor_id # <<>> /\
                override_profile.profile_device_id # <<>>
             THEN LET first_match ==
                        find_wifi_profile(profiles, override_profile.profile_vendor_id,
                                          override_profile.profile_device_id,
                                          override_profile.profile_chipset)
                      override_match ==
                        IF first_match = 0
                        THEN find_wifi_profile(profiles,
                                               override_profile.profile_vendor_id,
                                               override_profile.profile_device_id, <<>>)
                        ELSE first_match
                  IN IF override_match # 0 THEN override_match ELSE profile
             ELSE profile
     ELSE profile

\* The profile used for the card: index into profiles, 0 when none.
select_profile(card, tx_overrides, profiles) ==
  LET profile == find_wifi_profile(profiles, card.vendor_id, card.device_id,
                                   card.detected_type)
  IN IF card.interface_name \in DOMAIN tx_overrides
     THEN LET override_profile == tx_overrides[card.interface_name]
          IN IF override_profile.profile_vendor_id # <<>> /\
                override_profile.profile_device_id # <<>>
             THEN LET override_chipset ==
                        IF override_profile.profile_chipset = <<>>
                        THEN card.detected_type
                        ELSE override_profile.profile_chipset
                      first_match ==
                        find_wifi_profile(profiles, override_profile.profile_vendor_id,
                                          override_profile.profile_device_id,
                                          override_chipset)
                      override_match ==
                        IF first_match = 0
                        THEN find_wifi_profile(profiles,
                                               override_profile.profile_vendor_id,
                                               override_profile.profile_device_id, <<>>)
                        ELSE first_match
                  IN IF override_match # 0 THEN override_match ELSE profile
             ELSE profile
     ELSE profile

is_profile_fixed(profiles, profile) ==
  profile # 0 /\ to_upper(profiles[profile].power_mode) = S_FIXED

\* Name, power mode and the six figures copied from the profile.
card_profile_figures(card, profiles, profile) ==
  IF profile = 0 THEN card
  ELSE LET p == profiles[profile]
       IN [card EXCEPT !.card_name = IF card.card_name = <<>> THEN p.name ELSE @,
                       !.power_mode = p.power_mode,
                       !.power_lowest = to_string_if(p.lowest_mw),
                       !.power_low = to_string_if(p.low_mw),
                       !.power_mid = to_string_if(p.mid_mw),
                       !.power_high = to_string_if(p.high_mw),
                       !.power_min = to_string_if(p.min_mw),
                       !.power_max = to_string_if(p.max_mw)]

\* The stored power-override record applied to the card; power_level is
\* uppercased when not empty.
card_apply_tx_override(card, tx_overrides) ==
  LET c1 == IF card.interface_name \in DOMAIN tx_overrides
            THEN LET rec == tx_overrides[card.interface_name]
                 IN [card EXCEPT !.tx_power = rec.tx_power,
                                 !.tx_power_high = rec.tx_power_high,
                                 !.tx_power_low = rec.tx_power_low,
                                 !.card_name = IF rec.card_name # <<>>
                                               THEN rec.card_name ELSE @,
                                 !.power_level = rec.power_level]
            ELSE card
  IN IF c1.power_level # <<>>
     THEN [c1 EXCEPT !.power_level = to_upper(c1.power_level)]
     ELSE c1

\* A level that yields to a raw tx_power stored with it.
card_apply_power_level_unless_raw(card, profiles, profile) ==
  IF profile # 0 /\ card.power_level # <<>> /\ ~is_profile_fixed(profiles, profile)
  THEN LET level == card.power_level
           p == profiles[profile]
           selected_mw ==
             IF level = S_LOWEST THEN p.lowest_mw
             ELSE IF level = S_LOW THEN p.low_mw
             ELSE IF level = S_MID THEN p.mid_mw
             ELSE IF level = S_HIGH THEN p.high_mw
             ELSE 0
       IN IF selected_mw > 0 /\ card.tx_power = <<>>
          THEN [card EXCEPT !.tx_power = to_string(selected_mw)]
          ELSE card
  ELSE card

\* A symbolic level on a non-fixed profile selects the profile's figure.
card_apply_power_level(card, profiles, profile) ==
  IF profile # 0 /\ card.power_level # <<>> /\ ~is_profile_fixed(profiles, profile)
  THEN LET level == card.power_level
           p == profiles[profile]
           selected_mw ==
             IF level = S_LOWEST THEN p.lowest_mw
             ELSE IF level = S_LOW THEN p.low_mw
             ELSE IF level = S_MID THEN p.mid_mw
             ELSE IF level = S_HIGH THEN p.high_mw
             ELSE 0
       IN IF selected_mw > 0
          THEN [card EXCEPT !.tx_power = to_string(selected_mw)]
          ELSE card
  ELSE card

\* A fixed profile that yields to a stored level or raw power.
card_apply_fixed_unless_stored(card, profile_fixed) ==
  IF profile_fixed /\ card.power_level = <<>> /\ card.tx_power = <<>>
  THEN [card EXCEPT !.power_level = S_FIXED]
  ELSE card

\* A fixed profile forces the level and clears tx_power.
card_apply_fixed(card, profile_fixed) ==
  IF profile_fixed
  THEN [card EXCEPT !.power_level = S_FIXED, !.tx_power = <<>>]
  ELSE card

\* tx_power_high / tx_power_low still empty are taken from the profile.
card_backfill_high_low(card, profiles, profile) ==
  LET c1 == IF card.tx_power_high = <<>> /\ profile # 0 /\ profiles[profile].high_mw > 0
            THEN [card EXCEPT !.tx_power_high = to_string(profiles[profile].high_mw)]
            ELSE card
  IN IF c1.tx_power_low = <<>> /\ profile # 0 /\ profiles[profile].lowest_mw > 0
     THEN [c1 EXCEPT !.tx_power_low = to_string(profiles[profile].lowest_mw)]
     ELSE c1

\* The identified cards of Sysfs (the sysfs part of build_wifi_card).
SysfsCards == [i \in 1..Len(Sysfs) |-> card_identity(Sysfs[i])]

\* identified: the card after the sysfs reads of build_wifi_card.
build_wifi_card(identified, overrides, tx_overrides, profiles) ==
  LET classified == card_classify(identified, overrides)
      profile == select_profile(classified, tx_overrides, profiles)
      profile_fixed == is_profile_fixed(profiles, profile)
      with_profile == card_profile_figures(classified, profiles, profile)
      with_override == card_apply_tx_override(with_profile, tx_overrides)
      with_level == card_apply_power_level(with_override, profiles, profile)
      with_fixed == card_apply_fixed(with_level, profile_fixed)
  IN card_backfill_high_low(with_fixed, profiles, profile)

detect_wifi_cards(overrides, tx_overrides, profiles) ==
  [i \in 1..Len(SysfsCards) |->
     build_wifi_card(SysfsCards[i], overrides, tx_overrides, profiles)]

\* The card list refresh_wifi_info computes from the three files.
refresh_wifi_info(overrides_file, txpower_file, cards_file) ==
  detect_wifi_cards(load_overrides(overrides_file),
                    load_tx_power_overrides(txpower_file),
                    load_wifi_card_profiles(cards_file))

\* The loop of has_openhd_wifibroadcast_cards over the card list.
has_openhd_wifibroadcast_cards(cards) ==
  \E i \in 1..Len(cards) :
     ~cards[i].disabled /\ is_openhd_wifibroadcast_type(cards[i].effective_type)

(***************************************************************************)
(* sysutil.wifi.update: the changes to the two override maps.              *)
(***************************************************************************)
\* An inbound line as seen through extract_string_field: each field is
\* optional.
UpdateLine ==
  [action |-> Nothing, interface |-> Nothing, override_type |-> Nothing,
   tx_power |-> Nothing, tx_power_high |-> Nothing, tx_power_low |-> Nothing,
   card_name |-> Nothing, power_level |-> Nothing, profile_vendor_id |-> Nothing,
   profile_device_id |-> Nothing, profile_chipset |-> Nothing]

has_override_type(line) == line.override_type.has_value

has_tx_fields(line) ==
  \/ line.tx_power.has_value \/ line.tx_power_high.has_value
  \/ line.tx_power_low.has_value \/ line.card_name.has_value
  \/ line.power_level.has_value \/ line.profile_vendor_id.has_value
  \/ line.profile_device_id.has_value \/ line.profile_chipset.has_value

set_type_override(overrides, iface, override_type) ==
  IF override_type = <<>> \/ equal_after_uppercase(override_type, S_AUTO)
  THEN MapErase(overrides, iface)
  ELSE MapPut(overrides, iface, override_type)

merge_raw_fields(entry, line) ==
  [entry EXCEPT
     !.tx_power = IF line.tx_power.has_value THEN line.tx_power.value ELSE @,
     !.tx_power_high = IF line.tx_power_high.has_value THEN line.tx_power_high.value ELSE @,
     !.tx_power_low = IF line.tx_power_low.has_value THEN line.tx_power_low.value ELSE @,
     !.card_name = IF line.card_name.has_value THEN line.card_name.value ELSE @]

merge_power_level(entry, line) ==
  IF line.power_level.has_value
  THEN [entry EXCEPT
          !.power_level =
             IF line.power_level.value = <<>> \/
                equal_after_uppercase(line.power_level.value, S_AUTO)
             THEN <<>>
             ELSE to_upper(trim_copy(line.power_level.value)),
          !.tx_power = <<>>, !.tx_power_high = <<>>, !.tx_power_low = <<>>]
  ELSE entry

merge_profile_pin(entry, line) ==
  IF line.profile_vendor_id.has_value \/ line.profile_device_id.has_value \/
     line.profile_chipset.has_value
  THEN LET vendor_value == value_or(line.profile_vendor_id, <<>>)
           device_value == value_or(line.profile_device_id, <<>>)
           chipset_value == value_or(line.profile_chipset, <<>>)
       IN IF vendor_value = <<>> \/ device_value = <<>>
          THEN [entry EXCEPT !.profile_vendor_id = <<>>, !.profile_device_id = <<>>,
                             !.profile_chipset = <<>>]
          ELSE [entry EXCEPT !.profile_vendor_id = normalize_id(vendor_value),
                             !.profile_device_id = normalize_id(device_value),
                             !.profile_chipset = normalize_chipset(chipset_value)]
  ELSE entry

\* The merge of the line's power fields into the map, with the removal of a
\* record left all-empty.
set_tx_override(tx_overrides, iface, line) ==
  LET entry == merge_profile_pin(
                 merge_power_level(
                   merge_raw_fields(TxEntry(tx_overrides, iface), line), line), line)
  IN IF ~has_tx_power_values(entry)
     THEN MapErase(tx_overrides, iface)
     ELSE MapPut(tx_overrides, iface, entry)

\* A branch selection that accepts a set whose interface is present but
\* empty.
update_branch_empty_interface(line) ==
  LET action == value_or(line.action, A_refresh)
  IN IF action = A_set
     THEN IF ~line.interface.has_value THEN "set_no_interface" ELSE "set"
     ELSE IF action = A_clear
     THEN IF line.interface.has_value /\ line.interface.value # <<>>
          THEN "clear_interface" ELSE "clear_all"
     ELSE IF action = A_refresh \/ action = A_detect THEN "refresh"
     ELSE "unknown"

\* The branch of handle_wifi_update taken for the line.
update_branch(line) ==
  LET action == value_or(line.action, A_refresh)
  IN IF action = A_set
     THEN IF ~line.interface.has_value \/ line.interface.value = <<>>
          THEN "set_no_interface" ELSE "set"
     ELSE IF action = A_clear
     THEN IF line.interface.has_value /\ line.interface.value # <<>>
          THEN "clear_interface" ELSE "clear_all"
     ELSE IF action = A_refresh \/ action = A_detect THEN "refresh"
     ELSE "unknown"

\* A set that stops at the first failed write.
set_writes_short_circuit(write_type, write_tx, type_write_ok, tx_write_ok) ==
  [type_called |-> write_type,
   tx_called |-> write_tx /\ (write_type => type_write_ok),
   ok |-> (write_type => type_write_ok) /\ (write_tx => tx_write_ok)]

\* Which writers a set calls and its outcome: the power store is written
\* whether or not the type store write succeeded.
set_writes(write_type, write_tx, type_write_ok, tx_write_ok) ==
  [type_called |-> write_type,
   tx_called |-> write_tx,
   ok |-> (write_type => type_write_ok) /\ (write_tx => tx_write_ok)]

\* clear: the named interface is erased from the map; without one the map
\* is emptied.
clear_entries(map, line) ==
  IF line.interface.has_value /\ line.interface.value # <<>>
  THEN MapErase(map, line.interface.value)
  ELSE EmptyMap

\* ok = write_overrides(..) && write_tx_power_overrides(..)
clear_writes(type_write_ok, tx_write_ok) ==
  [type_called |-> TRUE,
   tx_called |-> type_write_ok,
   ok |-> type_write_ok /\ tx_write_ok]

no_writes(ok) == [type_called |-> FALSE, tx_called |-> FALSE, ok |-> ok]

\* The in-memory maps after the branch ran and the writer calls it makes.
update_plan(line, overrides, tx_overrides, type_write_ok, tx_write_ok) ==
  LET branch == update_branch(line)
  IN IF branch = "set"
     THEN [overrides |-> IF has_override_type(line)
                         THEN set_type_override(overrides, line.interface.value,
                                                line.override_type.value)
                         ELSE overrides,
           tx_overrides |-> IF has_tx_fields(line)
                            THEN set_tx_override(tx_overrides, line.interface.value, line)
                            ELSE tx_overrides,
           writes |-> set_writes(has_override_type(line), has_tx_fields(line),
                                 type_write_ok, tx_write_ok)]
     ELSE IF branch \in {"clear_interface", "clear_all"}
     THEN [overrides |-> clear_entries(overrides, line),
           tx_overrides |-> clear_entries(tx_overrides, line),
           writes |-> clear_writes(type_write_ok, tx_write_ok)]
     ELSE IF branch = "refresh"
     THEN [overrides |-> overrides, tx_overrides |-> tx_overrides,
           writes |-> no_writes(TRUE)]
     ELSE [overrides |-> overrides, tx_overrides |-> tx_overrides,
           writes |-> no_writes(FALSE)]

\* Whether handling the line reaches a call of each writer.
calls_write_overrides(line) ==
  \/ update_branch(line) = "set" /\ has_override_type(line)
  \/ update_branch(line) \in {"clear_interface", "clear_all"}

calls_write_tx_power_overrides(line, type_write_ok) ==
  \/ update_branch(line) = "set" /\ has_tx_fields(line)
  \/ update_branch(line) \in {"clear_interface", "clear_all"} /\ type_write_ok
(***************************************************************************)
(* Link control: sysutil.link.control lines and the control channel.       *)
(***************************************************************************)
kMaxControlLineLength == 4096

\* kOpenHdControlTimeout, in milliseconds.
kOpenHdControlTimeout == 900

\* sizeof(tmp) of read_line_with_timeout.
sizeof_tmp == 256

NoBool == [has_value |-> FALSE, value |-> FALSE]

json_escape_char(c) ==
  IF c = "\\" THEN <<"\\", "\\">>
  ELSE IF c = "\"" THEN <<"\\", "\"">>
  ELSE IF c = "\n" THEN <<"\\", "n">>
  ELSE IF c = "\r" THEN <<"\\", "r">>
  ELSE IF c = "\t" THEN <<"\\", "t">>
  ELSE <<c>>

RECURSIVE json_escape_from(_, _)
json_escape_from(input, i) ==
  IF i > Len(input) THEN <<>>
  ELSE json_escape_char(input[i]) \o json_escape_from(input, i + 1)

json_escape(input) == json_escape_from(input, 1)

\* The fields handle_link_control_request extracts from the inbound line.
LinkLine ==
  [interface |-> Nothing, frequency_mhz |-> NoInt, channel_width_mhz |-> NoInt,
   mcs_index |-> NoInt, tx_power_mw |-> NoInt, tx_power_index |-> NoInt,
   power_level |-> Nothing]

\* has_value of handle_link_control_request.
link_has_value(line) ==
  \/ (line.interface.has_value /\ line.interface.value # <<>>)
  \/ line.frequency_mhz.has_value
  \/ line.channel_width_mhz.has_value
  \/ line.mcs_index.has_value
  \/ line.tx_power_mw.has_value
  \/ line.tx_power_index.has_value
  \/ (line.power_level.has_value /\ line.power_level.value # <<>>)

\* A handler that refuses the disabled width only when it comes alone.
link_branch_width_alone(line) ==
  IF ~link_has_value(line) THEN "no_values"
  ELSE IF /\ line.channel_width_mhz.has_value
          /\ line.channel_width_mhz.value = 40
          /\ ~line.frequency_mhz.has_value
  THEN "width_disabled"
  ELSE "forward"

\* The branch of handle_link_control_request taken for the line.
link_branch(line) ==
  IF ~link_has_value(line) THEN "no_values"
  ELSE IF line.channel_width_mhz.has_value /\ line.channel_width_mhz.value = 40
  THEN "width_disabled"
  ELSE "forward"

int_field_json(key, field) ==
  IF field.has_value THEN key \o to_string(field.value) ELSE <<>>

interface_json(line) ==
  IF line.interface.has_value /\ line.interface.value # <<>>
  THEN J_interface \o json_escape(line.interface.value) \o <<"\"">>
  ELSE <<>>

power_level_json(line) ==
  IF line.power_level.has_value /\ trim_copy(line.power_level.value) # <<>>
  THEN J_power_level \o json_escape(trim_copy(line.power_level.value)) \o <<"\"">>
  ELSE <<>>

\* request.str(): the openhd.link.control line sent to the control socket.
link_request_payload(line) ==
  J_request_open
  \o interface_json(line)
  \o int_field_json(J_frequency_mhz, line.frequency_mhz)
  \o int_field_json(J_channel_width_mhz, line.channel_width_mhz)
  \o int_field_json(J_mcs_index, line.mcs_index)
  \o int_field_json(J_tx_power_mw, line.tx_power_mw)
  \o int_field_json(J_tx_power_index, line.tx_power_index)
  \o power_level_json(line)
  \o <<"}", "\n">>

(***************************************************************************)
(* extract_bool_field / extract_string_field over a flat key/value line:   *)
(* the value that follows the first "key": in the line.                    *)
(***************************************************************************)
\* std::string::find from position `from`: 1-based position of the first
\* occurrence of needle, 0 for npos.  Computed over the positions at once:
\* a line may hold several thousand bytes.
find_from(s, needle, from) ==
  LET hits == {i \in from..(Len(s) - Len(needle) + 1) :
                 SubSeq(s, i, i + Len(needle) - 1) = needle}
  IN IF hits = {} THEN 0 ELSE SetMin(hits)

RECURSIVE skip_spaces(_, _)
skip_spaces(s, i) ==
  IF i <= Len(s) /\ isspace(s[i]) THEN skip_spaces(s, i + 1) ELSE i

\* Position of the first character of the value of key, 0 when the line has
\* no such key.
field_value_pos(line, key) ==
  LET quoted == <<"\"">> \o key \o <<"\"">>
      at == find_from(line, quoted, 1)
  IN IF at = 0 THEN 0
     ELSE LET colon == skip_spaces(line, at + Len(quoted))
          IN IF colon <= Len(line) /\ line[colon] = ":"
             THEN skip_spaces(line, colon + 1)
             ELSE 0

extract_bool_field(line, key) ==
  LET pos == field_value_pos(line, key)
  IN IF pos = 0 THEN NoBool
     ELSE IF starts_with(SubSeq(line, pos, Len(line)), J_true) THEN Some(TRUE)
     ELSE IF starts_with(SubSeq(line, pos, Len(line)), J_false) THEN Some(FALSE)
     ELSE NoBool

extract_string_field(line, key) ==
  LET pos == field_value_pos(line, key)
  IN IF pos = 0 \/ pos > Len(line) THEN Nothing
     ELSE IF line[pos] # "\"" THEN Nothing
     ELSE LET close == find_from(line, <<"\"">>, pos + 1)
          IN IF close = 0 THEN Nothing
             ELSE Some(SubSeq(line, pos + 1, close - 1))

(***************************************************************************)
(* The response of handle_link_control_request.                            *)
(***************************************************************************)
\* ok and message when the request was not forwarded.
link_refusal(branch) ==
  IF branch = "no_values" THEN [ok |-> FALSE, message |-> M_no_rf_values]
  ELSE [ok |-> FALSE, message |-> M_width_40_disabled]

\* A relay that takes a peer line without ok for an acceptance.
link_relay_ok_by_default(reply) ==
  IF ~reply.has_value
  THEN [ok |-> FALSE, message |-> M_socket_not_available]
  ELSE LET ok == value_or(extract_bool_field(reply.value, F_ok), TRUE)
           message == value_or(extract_string_field(reply.value, F_message), <<>>)
       IN [ok |-> ok,
           message |-> IF message = <<>> /\ ~ok THEN M_rejected ELSE message]

\* ok and message for what send_openhd_control returned.
link_relay(reply) ==
  IF ~reply.has_value
  THEN [ok |-> FALSE, message |-> M_socket_not_available]
  ELSE LET ok == value_or(extract_bool_field(reply.value, F_ok), FALSE)
           message == value_or(extract_string_field(reply.value, F_message), <<>>)
       IN [ok |-> ok,
           message |-> IF message = <<>> /\ ~ok THEN M_rejected ELSE message]

\* out.str(): the sysutil.link.control.response line.
link_response_line(ok, message) ==
  J_response_open \o (IF ok THEN J_true ELSE J_false)
  \o (IF message # <<>> THEN J_message \o json_escape(message) \o <<"\"">> ELSE <<>>)
  \o <<"}", "\n">>

build_link_response(verdict) ==
  [ok |-> verdict.ok, message |-> verdict.message,
   line |-> link_response_line(verdict.ok, verdict.message)]

(***************************************************************************)
(* read_line_with_timeout: the buffer.                                     *)
(***************************************************************************)
\* buffer.find('\n') after an append; the line returned when it is found.
buffer_line(buffer) ==
  LET pos == find_from(buffer, <<"\n">>, 1)
  IN IF pos # 0 THEN Some(SubSeq(buffer, 1, pos - 1)) ELSE Nothing

\* The bytes queued in the socket: a stream keeps no write boundaries.
RECURSIVE queued_bytes(_)
queued_bytes(writes) ==
  IF writes = <<>> THEN <<>> ELSE Head(writes) \o queued_bytes(Tail(writes))

\* recv(fd, tmp, sizeof(tmp), 0) on `available` bytes: the count received.
recv_count(available) ==
  IF Len(available) < sizeof_tmp THEN Len(available) ELSE sizeof_tmp


(***************************************************************************)
(* State.                                                                  *)
(***************************************************************************)
VARIABLES
  wifi_overrides_conf,  \* lines of kOverridesPath (<<>>: no file)
  wifi_txpower_conf,    \* lines of kTxPowerOverridesPath (<<>>: no file)
  wifi_cards_json,      \* the catalog file kWifiCardsPath
  file_size_limit,      \* characters the filesystem lets a file hold
  g_wifi_cards,         \* process-wide card list
  g_wifi_initialized,
  request,              \* the inbound line handled last
  response,             \* the response line built for it
  calls,                \* writer and refresh calls made while handling it
  handled,              \* number of inbound lines handled
  link_request,         \* fields of the sysutil.link.control line handled last
  link_response,        \* the response line built for it
  ctl,                  \* send_openhd_control: position, socket, buffers, clock
  wifibroadcast         \* what has_openhd_wifibroadcast_cards() returned last

\* The state the Wi-Fi card handlers leave alone.
host_vars == <<file_size_limit, link_request, link_response, ctl, wifibroadcast>>

vars == <<wifi_overrides_conf, wifi_txpower_conf, wifi_cards_json, file_size_limit,
          g_wifi_cards,
          g_wifi_initialized, request, response, calls, handled, link_request,
          link_response, ctl, wifibroadcast>>

\* Inbound lines handled in one behaviour.
MaxRequests == 2

\* Objects in a catalog file of the lookup scenarios.
MaxProfiles == 3

\* File size limits short of a whole store file: one that ends inside the
\* header line and one that ends inside an entry.
HeaderRoom == 10
EntryRoom == 60

NoCalls == [write_overrides |-> "none", write_tx_power_overrides |-> "none",
            refresh_wifi_info |-> FALSE]

NoLine == [type |-> "none", line |-> UpdateLine]

NoResponse == [type |-> <<>>, ok |-> FALSE, action |-> <<>>, has_cards |-> FALSE,
               cards |-> <<>>]

MissingCatalog == [readable |-> FALSE, cards |-> <<>>]

NoLinkResponse == [ok |-> FALSE, message |-> <<>>, line |-> <<>>]

\* send_openhd_control not running: no socket, nothing sent or received.
IdleControl ==
  [pc |-> "idle", payload |-> <<>>, offset |-> 0, fd_open |-> FALSE,
   sockets |-> 0, closes |-> 0, peer |-> <<>>, unwritten |-> <<>>,
   peer_closes |-> FALSE,
   buffer |-> <<>>, started |-> 0, deadline |-> 0, now |-> 0,
   response |-> Nothing, exit |-> "none"]

NotAsked == [called |-> FALSE, value |-> FALSE]

(***************************************************************************)
(* Inbound sysutil.wifi.update lines.                                      *)
(***************************************************************************)
Interfaces == {I_wlan0, I_wlan1}

\* Power fields carried by a set: one field, a profile pin, or a level
\* together with a raw power.
TxFieldShapes ==
  {[UpdateLine EXCEPT !.tx_power = Some(<<>>)],
   [UpdateLine EXCEPT !.tx_power = Some(V_100)],
   [UpdateLine EXCEPT !.tx_power_high = Some(V_200)],
   [UpdateLine EXCEPT !.card_name = Some(<<>>)],
   [UpdateLine EXCEPT !.card_name = Some(V_blank)],
   [UpdateLine EXCEPT !.card_name = Some(V_Rig)],
   [UpdateLine EXCEPT !.power_level = Some(V_auto)],
   [UpdateLine EXCEPT !.power_level = Some(V_high)],
   [UpdateLine EXCEPT !.tx_power = Some(V_100), !.power_level = Some(V_high)],
   [UpdateLine EXCEPT !.profile_vendor_id = Some(V_02d0),
                      !.profile_device_id = Some(V_a9a6)]}

TypeShapes ==
  {[UpdateLine EXCEPT !.override_type = Some(V_auto)],
   [UpdateLine EXCEPT !.override_type = Some(V_disabled)]}

BothShape == [UpdateLine EXCEPT !.override_type = Some(V_disabled),
                                !.card_name = Some(V_Rig)]

\* The shapes sent for the second interface, enough to give it entries in
\* both stores.
OtherShapes ==
  {[UpdateLine EXCEPT !.override_type = Some(V_disabled)],
   [UpdateLine EXCEPT !.tx_power_high = Some(V_200)],
   [UpdateLine EXCEPT !.card_name = Some(V_Rig)]}

SetLines ==
  {[l EXCEPT !.action = Some(A_set), !.interface = Some(I_wlan0)] :
     l \in TypeShapes \cup TxFieldShapes \cup {BothShape}} \cup
  {[l EXCEPT !.action = Some(A_set), !.interface = Some(I_wlan1)] :
     l \in OtherShapes}

ClearLines ==
  {[UpdateLine EXCEPT !.action = Some(A_clear), !.interface = i] :
     i \in {Nothing, Some(I_wlan0), Some(I_wlan1)}}

\* Lines that must change nothing: a set without interface and the actions
\* other than set and clear, all carrying fields a set would store.
InertLines ==
  {[BothShape EXCEPT !.action = Some(A_set), !.interface = i] :
     i \in {Nothing, Some(<<>>)}} \cup
  {[BothShape EXCEPT !.action = a, !.interface = Some(I_wlan0)] :
     a \in {Nothing, Some(A_refresh), Some(A_detect), Some(V_reset)}}

UpdateLines == SetLines \cup ClearLines \cup InertLines

\* Lines whose action is refresh, detect or absent.
RefreshLines ==
  {[UpdateLine EXCEPT !.action = a] : a \in {Nothing, Some(A_refresh), Some(A_detect)}}

(***************************************************************************)
(* Initial states.                                                         *)
(***************************************************************************)
\* Override files as an earlier run of the program left them.
StoredOverrides == MapPut(EmptyMap, I_wlan1, V_disabled)

StoredTxOverrides ==
  MapPut(MapPut(EmptyMap, I_wlan0,
                [EmptyTxPowerOverride EXCEPT !.card_name = V_Rig, !.tx_power = V_100]),
         I_wlan1, [EmptyTxPowerOverride EXCEPT !.tx_power_high = V_200])

InitProcess ==
  /\ g_wifi_cards = <<>>
  /\ g_wifi_initialized = FALSE
  /\ request = NoLine
  /\ response = NoResponse
  /\ calls = NoCalls
  /\ handled = 0
  /\ link_request = LinkLine
  /\ link_response = NoLinkResponse
  /\ ctl = IdleControl
  /\ wifibroadcast = NotAsked

\* The filesystem takes a file whole, or refuses what goes beyond a limit
\* (a full disk, a quota, RLIMIT_FSIZE).
FileSizeLimits == {0, HeaderRoom, EntryRoom, RLIM_INFINITY}

\* A fresh process, on a system without override files or with the files of
\* an earlier run; no catalog file.
Init ==
  /\ file_size_limit \in FileSizeLimits
  /\ \/ /\ wifi_overrides_conf = <<>>
        /\ wifi_txpower_conf = <<>>
     \/ /\ wifi_overrides_conf = write_overrides(StoredOverrides, <<I_wlan1>>)
        /\ wifi_txpower_conf =
             write_tx_power_overrides(StoredTxOverrides, <<I_wlan0, I_wlan1>>)
  /\ wifi_cards_json = MissingCatalog
  /\ InitProcess

(***************************************************************************)
(* Actions.                                                                *)
(***************************************************************************)
CallResult(called, ok) == IF ~called THEN "none" ELSE IF ok THEN "ok" ELSE "failed"

\* What a writer can return.  A writer that is not called has nothing to
\* choose.
WriteOutcomes(called) == IF called THEN BOOLEAN ELSE {TRUE}

\* The iteration orders of the map a writer is given; a writer that is not
\* called iterates nothing.
WriteOrders(data, called) ==
  IF called THEN IterationOrders(DOMAIN data) ELSE {<<>>}

\* What a writer call does to its file, given what it returns.  A writer
\* that is refused the directory or the file returns false and leaves the
\* file untouched.  Else the file is opened, which empties it, and takes
\* what is inserted up to `room` characters; the writer returns what the
\* stream says at the test, before it is closed.
DiskEffects(called, write_ok, insertions, room) ==
  IF ~called THEN {"untouched"}
  ELSE {effect \in {"untouched", "written"} :
          stream_good(effect = "written", insertions, room) = write_ok}

\* The file after a writer call.
FileAfter(file, effect, insertions, room) ==
  IF effect = "written" THEN stream_file(insertions, room) ELSE file

\* The response line of handle_wifi_update.
update_response(line, ok, cards) ==
  [type |-> S_type_update_response, ok |-> ok,
   action |-> value_or(line.action, A_refresh),
   has_cards |-> ok, cards |-> IF ok THEN cards ELSE <<>>]

\* A handler that recomputes the card list whatever the outcome.
cards_after_update_always(ok, cards, overrides_file, txpower_file, cards_file) ==
  refresh_wifi_info(overrides_file, txpower_file, cards_file)

\* The card list after handle_wifi_update: recomputed from the files as
\* they are after the writer calls when ok, else left alone.
cards_after_update(ok, cards, overrides_file, txpower_file, cards_file) ==
  IF ok THEN refresh_wifi_info(overrides_file, txpower_file, cards_file)
  ELSE cards

\* What handle_wifi_update leaves behind once the writers chosen by the plan
\* have run: the two files, the card list, the response and the calls made.
update_result(line, plan, type_write_ok, tx_write_ok, type_order, tx_order,
              type_effect, tx_effect, room, overrides_file, txpower_file, cards_file,
              cards) ==
  LET ok == plan.writes.ok
      overrides_file_after ==
        FileAfter(overrides_file, type_effect,
                  write_overrides_insertions(plan.overrides, type_order), room)
      txpower_file_after ==
        FileAfter(txpower_file, tx_effect,
                  write_tx_power_overrides_insertions(plan.tx_overrides, tx_order),
                  room)
      cards_after ==
        cards_after_update(ok, cards, overrides_file_after, txpower_file_after,
                           cards_file)
  IN [overrides_file |-> overrides_file_after,
      txpower_file |-> txpower_file_after,
      cards |-> cards_after,
      ok |-> ok,
      response |-> update_response(line, ok, cards_after),
      calls |-> [write_overrides |->
                   CallResult(plan.writes.type_called, type_write_ok),
                 write_tx_power_overrides |->
                   CallResult(plan.writes.tx_called, tx_write_ok),
                 refresh_wifi_info |-> ok]]

\* handle_wifi_update(line).  type_write_ok / tx_write_ok: what each writer
\* returns; type_effect / tx_effect: what its call does to the file, which
\* holds file_size_limit characters at most.  The unordered_maps are
\* iterated in any order of their keys.
HandleWifiUpdateOf(lines) ==
  /\ handled < MaxRequests
  /\ \E overrides \in {load_overrides(wifi_overrides_conf)},
        tx_overrides \in {load_tx_power_overrides(wifi_txpower_conf)} :
     \E line \in lines :
     \E type_write_ok \in WriteOutcomes(calls_write_overrides(line)) :
     \E tx_write_ok \in WriteOutcomes(calls_write_tx_power_overrides(line, type_write_ok)) :
     \E plan \in {update_plan(line, overrides, tx_overrides, type_write_ok, tx_write_ok)} :
     \E type_order \in WriteOrders(plan.overrides, plan.writes.type_called),
        tx_order \in WriteOrders(plan.tx_overrides, plan.writes.tx_called) :
     \E type_effect \in DiskEffects(plan.writes.type_called, type_write_ok,
                                    write_overrides_insertions(plan.overrides,
                                                               type_order),
                                    file_size_limit),
        tx_effect \in DiskEffects(plan.writes.tx_called, tx_write_ok,
                                  write_tx_power_overrides_insertions(plan.tx_overrides,
                                                                      tx_order),
                                  file_size_limit) :
     \E result \in {update_result(line, plan, type_write_ok, tx_write_ok, type_order,
                                   tx_order, type_effect, tx_effect, file_size_limit,
                                   wifi_overrides_conf, wifi_txpower_conf,
                                   wifi_cards_json, g_wifi_cards)} :
       /\ wifi_overrides_conf' = result.overrides_file
       /\ wifi_txpower_conf' = result.txpower_file
       /\ g_wifi_cards' = result.cards
       /\ g_wifi_initialized' = (g_wifi_initialized \/ result.ok)
       /\ request' = [type |-> "sysutil.wifi.update", line |-> line]
       /\ response' = result.response
       /\ calls' = result.calls
       /\ handled' = handled + 1
       /\ UNCHANGED <<wifi_cards_json, host_vars>>

HandleWifiUpdate == HandleWifiUpdateOf(UpdateLines)

\* handle_wifi_update on a line that asks for a refresh.
HandleWifiRefresh == HandleWifiUpdateOf(RefreshLines)

\* wifi_cards(): the card list, refreshed first when not yet initialized.
wifi_cards(initialized, cards, overrides_file, txpower_file, cards_file) ==
  IF initialized THEN cards
  ELSE refresh_wifi_info(overrides_file, txpower_file, cards_file)

\* sysutil.wifi.request: build_wifi_response over wifi_cards(), which
\* refreshes on first use.
HandleWifiRequest ==
  /\ handled < MaxRequests
  /\ \E cards \in {wifi_cards(g_wifi_initialized, g_wifi_cards, wifi_overrides_conf,
                                wifi_txpower_conf, wifi_cards_json)} :
        /\ g_wifi_cards' = cards
        /\ g_wifi_initialized' = TRUE
        /\ request' = [type |-> "sysutil.wifi.request", line |-> UpdateLine]
        /\ response' = [type |-> S_type_wifi_response, ok |-> TRUE, action |-> <<>>,
                        has_cards |-> TRUE, cards |-> cards]
        /\ calls' = [NoCalls EXCEPT !.refresh_wifi_info = ~g_wifi_initialized]
        /\ handled' = handled + 1
        /\ UNCHANGED <<wifi_overrides_conf, wifi_txpower_conf, wifi_cards_json,
                       host_vars>>

\* init_wifi_info(), which is refresh_wifi_info(): the host calls either
\* when the process starts and whenever it wants the list recomputed.
InitWifiInfo ==
  /\ g_wifi_cards' = refresh_wifi_info(wifi_overrides_conf, wifi_txpower_conf,
                                       wifi_cards_json)
  /\ g_wifi_initialized' = TRUE
  /\ calls' = [NoCalls EXCEPT !.refresh_wifi_info = TRUE]
  /\ UNCHANGED <<wifi_overrides_conf, wifi_txpower_conf, wifi_cards_json, request,
                 response, handled, host_vars>>

\* has_openhd_wifibroadcast_cards(), asked by the host; it refreshes the
\* card list first when not yet initialized.
HasOpenhdWifibroadcastCards ==
  /\ ~wifibroadcast.called
  /\ \E cards \in {wifi_cards(g_wifi_initialized, g_wifi_cards, wifi_overrides_conf,
                                wifi_txpower_conf, wifi_cards_json)} :
        /\ g_wifi_cards' = cards
        /\ g_wifi_initialized' = TRUE
        /\ wifibroadcast' = [called |-> TRUE,
                             value |-> has_openhd_wifibroadcast_cards(cards)]
  /\ UNCHANGED <<wifi_overrides_conf, wifi_txpower_conf, wifi_cards_json, request,
                 response, calls, handled, file_size_limit, link_request,
                 link_response, ctl>>

Next == HandleWifiUpdate \/ HandleWifiRequest

Spec == Init /\ [][Next]_vars
(***************************************************************************)
(* Link control: inbound lines, peers and the steps of the round trip.     *)
(***************************************************************************)
\* Milliseconds that pass while a call is blocked, and the latest clock
\* reading at which a blocked connect() or send() is still followed.
TickMs == 450
MaxBlockedMs == 1350

\* Bytes one send() takes when it does not take all of them.
PartialSend == 16

\* Lines that carry no RF value: every field absent or empty.
EmptyLinkLines ==
  {[LinkLine EXCEPT !.interface = interface, !.power_level = power_level] :
     interface \in {Nothing, Some(<<>>)}, power_level \in {Nothing, Some(<<>>)}}

\* Lines that ask for the disabled width, with every combination of the
\* other fields.
Width40Lines ==
  {[interface |-> interface, frequency_mhz |-> frequency,
    channel_width_mhz |-> Some(40), mcs_index |-> mcs, tx_power_mw |-> mw,
    tx_power_index |-> index, power_level |-> power_level] :
     interface \in {Nothing, Some(<<>>), Some(I_wlan0)},
     frequency \in {NoInt, Some(5180)},
     mcs \in {NoInt, Some(3)},
     mw \in {NoInt, Some(25)},
     index \in {NoInt, Some(0)},
     power_level \in {Nothing, Some(<<>>), Some(V_high)}}

\* Lines that are forwarded.
ForwardLines ==
  {[LinkLine EXCEPT !.frequency_mhz = Some(5180)],
   [LinkLine EXCEPT !.channel_width_mhz = Some(20), !.mcs_index = Some(3)],
   [LinkLine EXCEPT !.interface = Some(I_wlan0), !.tx_power_mw = Some(25)],
   [LinkLine EXCEPT !.interface = Some(V_quoted_iface), !.tx_power_index = Some(0)],
   [LinkLine EXCEPT !.interface = Some(<<>>), !.frequency_mhz = Some(5180)],
   [LinkLine EXCEPT !.power_level = Some(V_level_padded)],
   [LinkLine EXCEPT !.power_level = Some(V_blank)],
   [LinkLine EXCEPT !.frequency_mhz = Some(5180), !.power_level = Some(<<>>)]}

LinkLines == EmptyLinkLines \cup Width40Lines \cup ForwardLines

Filler(n) == [i \in 1..n |-> "x"]

\* What a peer writes, one element per write, and whether it closes the
\* connection afterwards or stays silent.
PeerWrites ==
  {<<>>,
   <<R_ok_true \o <<"\n">> >>,
   <<R_ok_false \o <<"\n">> >>,
   <<R_ok_false_busy \o <<"\n">> >>,
   <<R_ok_false_blank \o <<"\n">> >>,
   <<R_ok_true_applied \o <<"\n">> >>,
   <<R_message_only \o <<"\n">> >>,
   <<R_not_json \o <<"\n">> >>,
   <<SubSeq(R_ok_true_applied, 1, 8),
     SubSeq(R_ok_true_applied, 9, Len(R_ok_true_applied)) \o <<"\n">> >>,
   <<R_ok_true \o <<"\n">> \o R_ok_false \o <<"\n">> >>,
   <<SubSeq(R_ok_true, 1, 6)>>,
   <<Filler(kMaxControlLineLength - 1) \o <<"\n">> >>,
   <<Filler(kMaxControlLineLength) \o <<"\n">> >>,
   <<Filler(kMaxControlLineLength - 1), Filler(sizeof_tmp - 1) \o <<"\n">> >>}

PeerScripts == {[writes |-> writes, closes |-> closes] :
                  writes \in PeerWrites, closes \in BOOLEAN}

(***************************************************************************)
(* send_openhd_control.                                                    *)
(***************************************************************************)
\* A return before any socket exists.
control_return(c, reply, exit) ==
  [c EXCEPT !.pc = "returned", !.response = reply, !.exit = exit]

\* ::close(fd) and return.
control_close_return(c, reply, exit) ==
  [c EXCEPT !.pc = "returned", !.fd_open = FALSE, !.closes = @ + 1,
            !.response = reply, !.exit = exit]

\* A send failure that returns without closing the socket.
send_failed_leaking(c) == control_return(c, Nothing, "send_failed")

\* write_all returned false.
send_failed(c) == control_close_return(c, Nothing, "send_failed")

\* Counts a ::send of `remaining` bytes can return when it takes some.
SendCounts(remaining) ==
  {IF remaining < PartialSend THEN remaining ELSE PartialSend, remaining}

\* Clock readings at which a poll() that did not time out returns.
PollTimes(c) == {t \in {c.now, c.now + TickMs} : t < c.deadline}

\* Clock readings at which the ::recv that follows such a poll() returns:
\* at once or a tick later, which may be past the deadline.
RecvTimes(c) == UNION {{t, t + TickMs} : t \in PollTimes(c)}

\* buffer.append(tmp, count) and the search for the terminator; the bytes
\* are taken from all that is queued, whatever writes they came in.
read_append(c, count) ==
  LET queued == queued_bytes(c.peer)
      buffer == c.buffer \o SubSeq(queued, 1, count)
      rest == SubSeq(queued, count + 1, Len(queued))
      peer == IF rest = <<>> THEN <<>> ELSE <<rest>>
  IN [buffer |-> buffer, peer |-> peer, line |-> buffer_line(buffer)]

\* handle_link_control_request up to the call of send_openhd_control, or
\* to its response when the line is refused.  The handler keeps nothing
\* from one line to the next, so one line per behaviour is followed.
HandleLinkControlRequest ==
  /\ handled = 0
  /\ ctl.pc = "idle"
  /\ \E line \in LinkLines :
     \E branch \in {link_branch(line)} :
       /\ link_request' = line
       /\ IF branch = "forward"
          THEN /\ ctl' = [IdleControl EXCEPT !.pc = "connect",
                                             !.payload = link_request_payload(line),
                                             !.now = ctl.now, !.started = ctl.now]
               /\ link_response' = NoLinkResponse
               /\ UNCHANGED handled
          ELSE /\ ctl' = [IdleControl EXCEPT !.now = ctl.now, !.started = ctl.now]
               /\ link_response' = build_link_response(link_refusal(branch))
               /\ handled' = handled + 1
  /\ UNCHANGED <<wifi_overrides_conf, wifi_txpower_conf, wifi_cards_json,
                 file_size_limit, g_wifi_cards, g_wifi_initialized, request,
                 response, calls, wifibroadcast>>

OnlyControlChanges ==
  UNCHANGED <<wifi_overrides_conf, wifi_txpower_conf, wifi_cards_json,
              file_size_limit, g_wifi_cards, g_wifi_initialized, request,
              response, calls, handled, link_request, link_response, wifibroadcast>>

\* file_exists, ::socket and ::connect.
SendOpenhdControlConnect ==
  /\ ctl.pc = "connect"
  /\ \/ ctl' = control_return(ctl, Nothing, "no_socket_path")
     \/ ctl' = control_return(ctl, Nothing, "socket_failed")
     \/ ctl' = control_close_return([ctl EXCEPT !.sockets = @ + 1, !.fd_open = TRUE],
                                    Nothing, "connect_failed")
     \/ \E script \in PeerScripts :
          ctl' = [ctl EXCEPT !.pc = "send", !.sockets = @ + 1, !.fd_open = TRUE,
                             !.peer = <<>>, !.unwritten = script.writes,
                             !.peer_closes = script.closes]
  /\ OnlyControlChanges

\* One turn of the loop of write_all; when all is written,
\* read_line_with_timeout starts and sets its deadline.
WriteAll ==
  /\ ctl.pc = "send"
  /\ IF ctl.offset < Len(ctl.payload)
     THEN \/ \E written \in SendCounts(Len(ctl.payload) - ctl.offset) :
               ctl' = [ctl EXCEPT !.offset = @ + written]
          \/ ctl' = ctl
          \/ ctl' = send_failed(ctl)
     ELSE ctl' = [ctl EXCEPT !.pc = "read", !.buffer = <<>>,
                             !.deadline = ctl.now + kOpenHdControlTimeout]
  /\ OnlyControlChanges

\* Time passes while ::connect or ::send does not return.
ControlCallBlocks ==
  /\ ctl.pc \in {"connect", "send"}
  /\ ctl.now + TickMs <= MaxBlockedMs
  /\ ctl' = [ctl EXCEPT !.now = @ + TickMs]
  /\ OnlyControlChanges

\* The peer makes its next write: the bytes join those queued in the
\* socket.
PeerWriteArrives ==
  /\ ctl.pc \in {"send", "read"}
  /\ ctl.unwritten # <<>>
  /\ ctl' = [ctl EXCEPT !.peer = Append(@, Head(ctl.unwritten)),
                        !.unwritten = Tail(@)]
  /\ OnlyControlChanges

\* One turn of the loop of read_line_with_timeout; send_openhd_control
\* closes the socket when it returns.
ReadLineWithTimeout ==
  /\ ctl.pc = "read"
  /\ IF Len(ctl.buffer) >= kMaxControlLineLength
     THEN ctl' = control_close_return(ctl, Nothing, "line_too_long")
     ELSE IF ctl.now >= ctl.deadline
     THEN ctl' = control_close_return(ctl, Nothing, "deadline")
     ELSE \/ \E t \in PollTimes(ctl) \cup RecvTimes(ctl) : ctl' = [ctl EXCEPT !.now = t]
          \/ \E t \in PollTimes(ctl) :
               ctl' = control_close_return([ctl EXCEPT !.now = t], Nothing, "poll_failed")
          \/ ctl' = control_close_return([ctl EXCEPT !.now = ctl.deadline], Nothing,
                                         "timeout")
          \/ /\ ctl.peer # <<>>
             /\ \E t \in RecvTimes(ctl) :
                \E got \in {read_append(ctl, recv_count(queued_bytes(ctl.peer)))} :
                \E c \in {[ctl EXCEPT !.now = t, !.buffer = got.buffer,
                                      !.peer = got.peer]} :
                  ctl' = IF got.line.has_value
                         THEN control_close_return(c, got.line, "line")
                         ELSE c
          \/ /\ ctl.peer = <<>>
             /\ ctl.unwritten = <<>>
             /\ ctl.peer_closes
             /\ \E t \in RecvTimes(ctl) :
                  ctl' = control_close_return([ctl EXCEPT !.now = t], Nothing,
                                              "peer_closed")
          \/ \E t \in RecvTimes(ctl) :
               ctl' = control_close_return([ctl EXCEPT !.now = t], Nothing, "recv_failed")
  /\ OnlyControlChanges

\* handle_link_control_request after send_openhd_control returned.
LinkControlRespond ==
  /\ ctl.pc = "returned"
  /\ ctl' = [ctl EXCEPT !.pc = "idle"]
  /\ link_response' = build_link_response(link_relay(ctl.response))
  /\ handled' = handled + 1
  /\ UNCHANGED <<wifi_overrides_conf, wifi_txpower_conf, wifi_cards_json,
                 file_size_limit, g_wifi_cards, g_wifi_initialized, request,
                 response, calls, link_request, wifibroadcast>>

InitLink ==
  /\ wifi_overrides_conf = <<>>
  /\ wifi_txpower_conf = <<>>
  /\ wifi_cards_json = MissingCatalog
  /\ file_size_limit = RLIM_INFINITY
  /\ InitProcess

NextLink ==
  \/ HandleLinkControlRequest
  \/ SendOpenhdControlConnect
  \/ WriteAll
  \/ ControlCallBlocks
  \/ PeerWriteArrives
  \/ ReadLineWithTimeout
  \/ LinkControlRespond

SpecLink == InitLink /\ [][NextLink]_vars


\* The same behaviours, started on a system without override files.
InitFresh ==
  /\ wifi_overrides_conf = <<>>
  /\ wifi_txpower_conf = <<>>
  /\ wifi_cards_json = MissingCatalog
  /\ file_size_limit = RLIM_INFINITY
  /\ InitProcess

SpecFresh == InitFresh /\ [][Next]_vars

(***************************************************************************)
(* Start-up on files found on disk: the catalog file and the override      *)
(* files are read by init_wifi_info and by the first sysutil.wifi.request. *)
(***************************************************************************)
CatalogObject ==
  [vendor_id |-> Nothing, device_id |-> Nothing, chipset |-> Nothing,
   name |-> Nothing, power_mode |-> Nothing, min_mw |-> NoInt, max_mw |-> NoInt,
   lowest |-> NoInt, low |-> NoInt, mid |-> NoInt, high |-> NoInt,
   levels_mw |-> NoLevels]

CatalogFile(objects) == [readable |-> TRUE, cards |-> objects]

\* The catalog object of the first interface's adapter.
AdapterObject ==
  [CatalogObject EXCEPT !.vendor_id = Some(V_0bda), !.device_id = Some(V_a81a)]

\* Each figure of an object is absent or positive; the figures differ so
\* that a result shows where it was taken from.
FlatFigures ==
  {[AdapterObject EXCEPT !.min_mw = mn, !.max_mw = mx, !.lowest = lowest,
                         !.low = low, !.mid = mid, !.high = high] :
     mn \in {NoInt, Some(10)}, mx \in {NoInt, Some(2000)},
     lowest \in {NoInt, Some(25)}, low \in {NoInt, Some(100)},
     mid \in {NoInt, Some(500)}, high \in {NoInt, Some(1000)}}

NestedLevels ==
  {NoLevels} \cup
  {Some([lowest |-> lowest, low |-> low, mid |-> mid, high |-> high]) :
     lowest \in {NoInt, Some(26)}, low \in {NoInt, Some(101)},
     mid \in {NoInt, Some(501)}, high \in {NoInt, Some(1001)}}

FigureObjects ==
  {[object EXCEPT !.levels_mw = levels] :
     object \in FlatFigures, levels \in NestedLevels} \cup
  {[object EXCEPT !.power_mode = Some(V_fixed)] : object \in FlatFigures}

FigureCatalogs == {CatalogFile(<<object>>) : object \in FigureObjects}

\* Objects of the lookup scenarios: the adapter's IDs with no chipset, with
\* the chipset of its driver and with another one; a different device; an
\* object without vendor_id, which the loader skips.
MatchObjects ==
  {AdapterObject,
   [AdapterObject EXCEPT !.chipset = Some(V_openhd_rtl_88x2eu)],
   [AdapterObject EXCEPT !.chipset = Some(V_OTHER)],
   [AdapterObject EXCEPT !.device_id = Some(V_1234),
                         !.chipset = Some(V_openhd_rtl_88x2eu)],
   [CatalogObject EXCEPT !.device_id = Some(V_a81a)]}

\* The i-th object of a catalog is named P<i>.
ProfileName(i) == <<"P">> \o to_string(i)

MatchCatalogs ==
  UNION {{CatalogFile([i \in 1..n |-> [objects[i] EXCEPT !.name = Some(ProfileName(i))]]) :
            objects \in [1..n -> MatchObjects]} : n \in 0..MaxProfiles}

CatalogFiles == {MissingCatalog} \cup FigureCatalogs \cup MatchCatalogs

\* A power store that pins the second interface to the adapter's IDs.
PinnedStores ==
  {<<>>} \cup
  {write_tx_power_overrides(
     MapPut(EmptyMap, I_wlan1,
            [EmptyTxPowerOverride EXCEPT !.profile_vendor_id = S_id_0BDA,
                                         !.profile_device_id = S_id_A81A,
                                         !.profile_chipset = chipset]),
     <<I_wlan1>>) : chipset \in {<<>>, V_OTHER, S_OPENHD_RTL_88X2EU}}

InitCatalog ==
  /\ wifi_cards_json \in CatalogFiles
  /\ wifi_overrides_conf = <<>>
  /\ wifi_txpower_conf \in PinnedStores
  /\ file_size_limit = RLIM_INFINITY
  /\ InitProcess

NextResolve == InitWifiInfo \/ HandleWifiRequest

SpecCatalog == InitCatalog /\ [][NextResolve]_vars

\* Power-override records found on disk for the first interface: raw
\* powers, a name, a level (as the handler stores it or as typed into the
\* file) and a profile pin.
ProfilePins ==
  {<< <<>>, <<>>, <<>> >>,
   <<S_id_02D0, S_id_A9A6, <<>> >>,
   <<S_id_02D0, S_id_A9A6, S_BROADCOM>>,
   <<V_id_1234, V_id_9999, <<>> >>}

StoredRecords ==
  {[tx_power |-> tx_power, tx_power_high |-> tx_power_high, tx_power_low |-> <<>>,
    card_name |-> card_name, power_level |-> power_level,
    profile_vendor_id |-> pin[1], profile_device_id |-> pin[2],
    profile_chipset |-> pin[3]] :
     tx_power \in {<<>>, V_100}, tx_power_high \in {<<>>, V_200},
     card_name \in {<<>>, V_Rig}, power_level \in {<<>>, S_HIGH, S_LOW, V_high},
     pin \in ProfilePins}

OtherRecords ==
  {EmptyTxPowerOverride,
   [EmptyTxPowerOverride EXCEPT !.tx_power = V_100, !.power_level = S_HIGH],
   [EmptyTxPowerOverride EXCEPT !.profile_vendor_id = S_id_0BDA,
                                !.profile_device_id = S_id_A81A]}

StoredPowerFiles ==
  {write_tx_power_overrides(MapPut(MapPut(EmptyMap, I_wlan0, first), I_wlan1, other),
                            <<I_wlan0, I_wlan1>>) :
     first \in StoredRecords, other \in OtherRecords}

StoredTypeFiles ==
  {<<>>,
   write_overrides(MapPut(EmptyMap, I_wlan0, V_disabled), <<I_wlan0>>),
   write_overrides(MapPut(EmptyMap, I_wlan0, S_OPENHD_RTL_88X2AU), <<I_wlan0>>)}

\* A catalog that makes the first adapter fixed and gives the second one
\* figures.
FixedAdapterCatalog ==
  CatalogFile(<<[AdapterObject EXCEPT !.name = Some(ProfileName(1)), !.power_mode = Some(V_fixed)],
                [CatalogObject EXCEPT !.vendor_id = Some(V_02d0),
                                      !.device_id = Some(V_a9a6),
                                      !.name = Some(ProfileName(2)),
                                      !.low = Some(100), !.high = Some(1000)]>>)

InitStored ==
  /\ wifi_cards_json \in {MissingCatalog, FixedAdapterCatalog}
  /\ wifi_overrides_conf \in StoredTypeFiles
  /\ wifi_txpower_conf \in StoredPowerFiles
  /\ file_size_limit = RLIM_INFINITY
  /\ InitProcess

SpecStored == InitStored /\ [][NextResolve]_vars
(***************************************************************************)
(* Start-up on a type-override store found on disk.                        *)
(***************************************************************************)
\* What the store says for one interface: nothing, DISABLED in several
\* spellings, or a type name (one of them padded with spaces in the file).
StoredTypes ==
  {Nothing, Some(V_disabled), Some(S_DISABLED), Some(V_Disabled),
   Some(S_OPENHD_RTL_88X2AU), Some(V_openhd_rtl_88x2eu), Some(V_OTHER),
   Some(V_padded_type)}

type_line(iface, type) ==
  IF type.has_value THEN << iface \o <<"=">> \o type.value >> ELSE <<>>

TypeStoreFiles ==
  {<<kOverridesHeader>> \o type_line(I_wlan0, first) \o type_line(I_wlan1, second) :
     first \in StoredTypes, second \in StoredTypes}

InitTypes ==
  /\ wifi_cards_json = MissingCatalog
  /\ wifi_overrides_conf \in TypeStoreFiles
  /\ wifi_txpower_conf = <<>>
  /\ file_size_limit = RLIM_INFINITY
  /\ InitProcess

NextTypes == InitWifiInfo \/ HandleWifiRequest \/ HasOpenhdWifibroadcastCards

SpecTypes == InitTypes /\ [][NextTypes]_vars

(***************************************************************************)
(* Symbolic power levels: a stored level, a catalog whose figures are      *)
(* edited while the program runs, and re-resolution on a refresh.          *)
(***************************************************************************)
\* Catalog objects of the first adapter: without figures, with all four
\* level figures, and with low left out; as a level profile or fixed.
LevelObjects ==
  {[AdapterObject EXCEPT !.name = Some(ProfileName(1)), !.power_mode = mode,
                         !.lowest = figures[1], !.low = figures[2],
                         !.mid = figures[3], !.high = figures[4]] :
     mode \in {Nothing, Some(V_fixed)},
     figures \in {<<NoInt, NoInt, NoInt, NoInt>>,
                  <<Some(25), Some(100), Some(500), Some(1000)>>,
                  <<Some(25), NoInt, Some(500), Some(1000)>>}}

LevelCatalogs == {MissingCatalog} \cup {CatalogFile(<<object>>) : object \in LevelObjects}

\* Power records found on disk for the first interface: a level as the
\* handler stores it, typed in lower case, or unknown, with or without a raw
\* tx_power.
LevelRecords ==
  {[EmptyTxPowerOverride EXCEPT !.power_level = power_level, !.tx_power = tx_power] :
     power_level \in {<<>>, S_LOWEST, S_LOW, S_MID, S_HIGH, V_high, V_OTHER},
     tx_power \in {<<>>, V_100}}

LevelStores ==
  {write_tx_power_overrides(MapPut(EmptyMap, I_wlan0, record), <<I_wlan0>>) :
     record \in LevelRecords}

InitLevels ==
  /\ wifi_cards_json \in LevelCatalogs
  /\ wifi_overrides_conf = <<>>
  /\ wifi_txpower_conf \in LevelStores
  /\ file_size_limit = RLIM_INFINITY
  /\ InitProcess

\* The catalog file is edited on disk: the high figure of its first object
\* becomes 800.
CatalogEdited ==
  /\ wifi_cards_json.readable
  /\ Len(wifi_cards_json.cards) > 0
  /\ wifi_cards_json.cards[1].high # Some(800)
  /\ wifi_cards_json' = [wifi_cards_json EXCEPT !.cards[1].high = Some(800)]
  /\ UNCHANGED <<wifi_overrides_conf, wifi_txpower_conf, g_wifi_cards,
                 g_wifi_initialized, request, response, calls, handled, host_vars>>

NextLevels == InitWifiInfo \/ HandleWifiRequest \/ HandleWifiRefresh \/ CatalogEdited

SpecLevels == InitLevels /\ [][NextLevels]_vars


(***************************************************************************)
(* Start-up on a power store that pins the second interface to a profile.  *)
(***************************************************************************)
\* Catalog objects: the second adapter's own IDs; the pinned IDs with no
\* chipset, with another chipset and with the second adapter's detected
\* type as chipset.
PinObjects ==
  {[CatalogObject EXCEPT !.vendor_id = Some(V_02d0), !.device_id = Some(V_a9a6)],
   AdapterObject,
   [AdapterObject EXCEPT !.chipset = Some(V_OTHER)],
   [AdapterObject EXCEPT !.chipset = Some(V_broadcom)]}

PinCatalogs ==
  UNION {{CatalogFile([i \in 1..n |-> [objects[i] EXCEPT !.name = Some(ProfileName(i))]]) :
            objects \in [1..n -> PinObjects]} : n \in 0..MaxProfiles}

\* Records of the second interface: each pin ID absent or present, IDs the
\* catalog knows or not, a chipset pinned or not.
PinRecords ==
  {[EmptyTxPowerOverride EXCEPT !.profile_vendor_id = vendor_id,
                                !.profile_device_id = device_id,
                                !.profile_chipset = chipset] :
     vendor_id \in {<<>>, S_id_0BDA, V_id_1234},
     device_id \in {<<>>, S_id_A81A},
     chipset \in {<<>>, V_OTHER}}

PinStores ==
  {write_tx_power_overrides(MapPut(EmptyMap, I_wlan1, record), <<I_wlan1>>) :
     record \in PinRecords}

InitPins ==
  /\ wifi_cards_json \in PinCatalogs
  /\ wifi_overrides_conf = <<>>
  /\ wifi_txpower_conf \in PinStores
  /\ file_size_limit = RLIM_INFINITY
  /\ InitProcess

SpecPins == InitPins /\ [][NextResolve]_vars

(***************************************************************************)
(* The process from its start: init_wifi_info, then requests and updates.  *)
(***************************************************************************)
NextServe == InitWifiInfo \/ HandleWifiUpdate \/ HandleWifiRequest

SpecServe == Init /\ [][NextServe]_vars

(***************************************************************************)
(* Properties.                                                             *)
(***************************************************************************)
\* The two stores and the catalog as the program reads them.
stored_overrides == load_overrides(wifi_overrides_conf)

stored_tx_overrides == load_tx_power_overrides(wifi_txpower_conf)

catalog_profiles == load_wifi_card_profiles(wifi_cards_json)

\* The step handles a sysutil.wifi.update line.
UpdateHandled == request'.type = "sysutil.wifi.update" /\ handled' = handled + 1

NamesInterface(line) == line.interface.has_value /\ line.interface.value # <<>>

\* The profile the resolution uses for a card of the list.
resolved_profile(card) == select_profile(card, stored_tx_overrides, catalog_profiles)

\* C1: once the card list is computed, every card whose resolved profile
\* (detected or pinned) has power_mode FIXED has power_level "FIXED" and an
\* empty tx_power, whatever power-override record is stored for it.
C1_FixedProfileForcesLevel ==
  g_wifi_initialized =>
    \A profiles \in {catalog_profiles}, tx_overrides \in {stored_tx_overrides} :
    \A i \in 1..Len(g_wifi_cards) :
       is_profile_fixed(profiles, select_profile(g_wifi_cards[i], tx_overrides, profiles)) =>
         /\ g_wifi_cards[i].power_level = S_FIXED
         /\ g_wifi_cards[i].tx_power = <<>>

\* A card pinned to a fixed profile whose stored record holds both a raw
\* tx_power and a level.
C1_PinnedFixedOverridesStored ==
  /\ g_wifi_initialized
  /\ \E i \in 1..Len(g_wifi_cards) :
        LET card == g_wifi_cards[i]
            stored == TxEntry(stored_tx_overrides, card.interface_name)
        IN /\ is_profile_fixed(catalog_profiles, resolved_profile(card))
           /\ stored.profile_vendor_id # <<>>
           /\ stored.tx_power # <<>>
           /\ stored.power_level # <<>>
           /\ card.power_level = S_FIXED
           /\ card.tx_power = <<>>

\* Some flat or nested figure of the catalog object is positive.
has_positive_figure(object) ==
  \/ \E figure \in {object.min_mw, object.max_mw, object.lowest, object.low,
                    object.mid, object.high} :
        figure.has_value /\ figure.value > 0
  \/ /\ object.levels_mw.has_value
     /\ \E figure \in {object.levels_mw.value.lowest, object.levels_mw.value.low,
                       object.levels_mw.value.mid, object.levels_mw.value.high} :
           figure.has_value /\ figure.value > 0

all_figures_populated(profile) ==
  /\ profile.min_mw > 0 /\ profile.max_mw > 0 /\ profile.lowest_mw > 0
  /\ profile.low_mw > 0 /\ profile.mid_mw > 0 /\ profile.high_mw > 0

\* C2: once the catalog is loaded, every non-FIXED catalog object with at
\* least one positive flat or nested figure yields a profile whose six
\* figures are all positive.
C2_AllFiguresPopulated ==
  (g_wifi_initialized /\ wifi_cards_json \in FigureCatalogs) =>
    LET object == wifi_cards_json.cards[1]
        profile == catalog_profiles[1]
    IN (profile.power_mode # S_FIXED /\ has_positive_figure(object)) =>
         all_figures_populated(profile)

\* An object whose only figure is min_mw: the card shows the minimum and no
\* maximum.
C2_MinOnlyLeavesMaxZero ==
  /\ g_wifi_initialized
  /\ wifi_cards_json = CatalogFile(<<[AdapterObject EXCEPT !.min_mw = Some(10)]>>)
  /\ catalog_profiles[1].min_mw = 10
  /\ catalog_profiles[1].max_mw = 0
  /\ g_wifi_cards[1].power_min = to_string(10)
  /\ g_wifi_cards[1].power_max = <<>>

\* Lookup targets: vendor, device and chipset as cards and pins give them.
LookupTargets ==
  {<<vendor_id, device_id, chipset>> :
     vendor_id \in {S_id_0BDA, V_0x0bda},
     device_id \in {S_id_A81A, V_id_1234},
     chipset \in {<<>>, S_OPENHD_RTL_88X2EU, V_openhd_rtl_88x2eu, V_OTHER}}

vendor_device_matches(profiles, target) ==
  {i \in 1..Len(profiles) :
     /\ equal_after_uppercase(profiles[i].vendor_id, target[1])
     /\ equal_after_uppercase(profiles[i].device_id, target[2])}

exact_matches(profiles, target, matches) ==
  {i \in matches :
     /\ profiles[i].chipset # <<>>
     /\ equal_after_uppercase(profiles[i].chipset, target[3])}

generic_matches(profiles, matches) == {i \in matches : profiles[i].chipset = <<>>}

lookup_precedence(profiles, target) ==
  \A matches \in {vendor_device_matches(profiles, target)} :
  \A exact \in {exact_matches(profiles, target, matches)},
     generic \in {generic_matches(profiles, matches)},
     found \in {find_wifi_profile(profiles, target[1], target[2], target[3])} :
       IF exact # {} THEN found \in exact
       ELSE IF generic # {} THEN found = SetMin(generic)
       ELSE IF matches # {} THEN found = SetMin(matches)
       ELSE found = 0

\* C3: over the loaded profile list and every target, find_wifi_profile
\* returns, among the profiles equal (case-insensitively) to the target on
\* vendor and device, one whose non-empty chipset equals the target's if
\* there is one, else the first with an empty chipset, else the first
\* vendor/device match, and nothing when no profile matches.
C3_LookupPrecedence ==
  g_wifi_initialized =>
    \A profiles \in {catalog_profiles} :
    \A target \in LookupTargets : lookup_precedence(profiles, target)

\* A catalog listing another chipset, a generic entry and the adapter's
\* chipset, in that order: the adapter's card is given the third profile.
C3_ExactAfterGeneric ==
  /\ g_wifi_initialized
  /\ Len(catalog_profiles) = 3
  /\ catalog_profiles[1].chipset = V_OTHER
  /\ catalog_profiles[2].chipset = <<>>
  /\ catalog_profiles[3].chipset = S_OPENHD_RTL_88X2EU
  /\ vendor_device_matches(catalog_profiles,
                           <<g_wifi_cards[1].vendor_id, g_wifi_cards[1].device_id,
                             g_wifi_cards[1].detected_type>>) = {1, 2, 3}
  /\ g_wifi_cards[1].card_name = ProfileName(3)

\* C4: starting from empty stores, no persisted power-override record has
\* a non-empty power_level together with a non-empty tx_power,
\* tx_power_high or tx_power_low.
C4_LevelExcludesRawPower ==
  \A iface \in DOMAIN stored_tx_overrides :
     stored_tx_overrides[iface].power_level # <<>> =>
       /\ stored_tx_overrides[iface].tx_power = <<>>
       /\ stored_tx_overrides[iface].tx_power_high = <<>>
       /\ stored_tx_overrides[iface].tx_power_low = <<>>

\* A set of tx_power alone, accepted on a record that already holds a level.
C4_RawPowerSetAfterLevel ==
  /\ request.type = "sysutil.wifi.update"
  /\ request.line = [UpdateLine EXCEPT !.action = Some(A_set),
                                       !.interface = Some(I_wlan0),
                                       !.tx_power = Some(V_100)]
  /\ response.ok
  /\ I_wlan0 \in DOMAIN stored_tx_overrides
  /\ stored_tx_overrides[I_wlan0].power_level = S_HIGH
  /\ stored_tx_overrides[I_wlan0].tx_power = V_100

\* C5: the persisted power-override store never holds an interface whose
\* record has all eight fields empty.
C5_NoEmptyRecordPersisted ==
  \A iface \in DOMAIN stored_tx_overrides :
     has_tx_power_values(stored_tx_overrides[iface])

\* A set of a blank card_name: the line is written, and the store read back
\* holds the interface with an all-empty record.
C5_BlankNamePersisted ==
  /\ request.type = "sysutil.wifi.update"
  /\ request.line = [UpdateLine EXCEPT !.action = Some(A_set),
                                       !.interface = Some(I_wlan0),
                                       !.card_name = Some(V_blank)]
  /\ response.ok
  /\ I_wlan0 \in DOMAIN stored_tx_overrides
  /\ stored_tx_overrides[I_wlan0] = EmptyTxPowerOverride

\* Interface and field (uppercased) of a line "iface.field=value".
tx_line_key(line) == SubSeq(line, 1, str_find(line, "=") - 1)

tx_line_iface(line) ==
  SubSeq(tx_line_key(line), 1, str_find(tx_line_key(line), ".") - 1)

tx_line_field(line) ==
  to_upper(SubSeq(tx_line_key(line), str_find(tx_line_key(line), ".") + 1,
                  Len(tx_line_key(line))))

FieldRank(order, field) == CHOOSE i \in 1..Len(order) : order[i] = field

\* The lines of each interface follow `order`; the first line of the file
\* is the header.
in_field_order(file, order) ==
  \A i, j \in 2..Len(file) :
     (i < j /\ tx_line_iface(file[i]) = tx_line_iface(file[j])) =>
       FieldRank(order, tx_line_field(file[i])) < FieldRank(order, tx_line_field(file[j]))

NameLevelFirstOrder ==
  <<K_CARD_NAME, K_POWER_LEVEL, K_PROFILE_VENDOR_ID, K_PROFILE_DEVICE_ID,
    K_PROFILE_CHIPSET, K_TX_POWER, K_TX_POWER_HIGH, K_TX_POWER_LOW>>

ProfileFirstOrder ==
  <<K_PROFILE_VENDOR_ID, K_PROFILE_DEVICE_ID, K_PROFILE_CHIPSET, K_CARD_NAME,
    K_POWER_LEVEL, K_TX_POWER, K_TX_POWER_HIGH, K_TX_POWER_LOW>>

\* C6 (as written): in a file written by write_tx_power_overrides the lines
\* of an interface appear in the order profile fields, card_name and
\* power_level, raw power fields.
C6_ProfileFieldsFirst ==
  calls.write_tx_power_overrides = "ok" =>
    in_field_order(wifi_txpower_conf, ProfileFirstOrder)

\* C6 (amended): in a file written by write_tx_power_overrides the lines of
\* an interface appear in the order card_name, power_level, then
\* profile_vendor_id, profile_device_id, profile_chipset, then tx_power,
\* tx_power_high, tx_power_low.
C6_NameLevelFirst ==
  calls.write_tx_power_overrides = "ok" =>
    in_field_order(wifi_txpower_conf, NameLevelFirstOrder)

\* A written record that holds a name, a profile pin and a raw power.
C6_NamePinAndPowerWritten ==
  /\ calls.write_tx_power_overrides = "ok"
  /\ I_wlan0 \in DOMAIN stored_tx_overrides
  /\ stored_tx_overrides[I_wlan0].card_name # <<>>
  /\ stored_tx_overrides[I_wlan0].profile_vendor_id # <<>>
  /\ stored_tx_overrides[I_wlan0].profile_device_id # <<>>
  /\ stored_tx_overrides[I_wlan0].tx_power # <<>>

\* The action of a line, as the words of the request say it.
SetWithoutInterface(line) ==
  line.action = Some(A_set) /\ ~NamesInterface(line)

UnknownAction(line) ==
  line.action.has_value /\ line.action.value \notin {A_set, A_clear, A_refresh, A_detect}

RefreshOrDetect(line) ==
  ~line.action.has_value \/ line.action.value \in {A_refresh, A_detect}

StoresUnchanged ==
  /\ wifi_overrides_conf' = wifi_overrides_conf
  /\ wifi_txpower_conf' = wifi_txpower_conf

\* C7: an update whose action is set without a (non-empty) interface, or
\* none of set/clear/refresh/detect, answers ok:false and leaves both store
\* files as they were; refresh, detect or an absent action answers ok:true
\* and leaves both store files as they were.
C7_InertRequests ==
  [][UpdateHandled =>
       /\ (SetWithoutInterface(request'.line) \/ UnknownAction(request'.line)) =>
            (response'.ok = FALSE /\ StoresUnchanged)
       /\ RefreshOrDetect(request'.line) =>
            (response'.ok = TRUE /\ StoresUnchanged)]_vars

\* A set with an empty interface and fields to store, refused on a system
\* whose stores hold entries.
C7_EmptyInterfaceRefused ==
  /\ request.type = "sysutil.wifi.update"
  /\ request.line = [BothShape EXCEPT !.action = Some(A_set), !.interface = Some(<<>>)]
  /\ response.ok = FALSE
  /\ calls = NoCalls
  /\ DOMAIN stored_overrides = {I_wlan1}
  /\ DOMAIN stored_tx_overrides = {I_wlan0, I_wlan1}

\* The entries of an interface are the same in two readings of the stores.
same_entries(iface, types_before, types_after, power_before, power_after) ==
  /\ (iface \in DOMAIN types_before) = (iface \in DOMAIN types_after)
  /\ iface \in DOMAIN types_before => types_before[iface] = types_after[iface]
  /\ TxEntry(power_before, iface) = TxEntry(power_after, iface)

\* C8: after a clear answered ok:true, a named interface is absent from
\* both persisted stores and the entries of every other interface are what
\* they were; with no interface named both stores hold no entries.
C8_ClearSemantics ==
  [][(UpdateHandled /\ request'.line.action = Some(A_clear) /\ response'.ok) =>
       IF NamesInterface(request'.line)
       THEN /\ request'.line.interface.value \notin DOMAIN load_overrides(wifi_overrides_conf')
            /\ request'.line.interface.value \notin
                 DOMAIN load_tx_power_overrides(wifi_txpower_conf')
            /\ \A other \in Interfaces \ {request'.line.interface.value} :
                  same_entries(other, load_overrides(wifi_overrides_conf),
                               load_overrides(wifi_overrides_conf'),
                               load_tx_power_overrides(wifi_txpower_conf),
                               load_tx_power_overrides(wifi_txpower_conf'))
       ELSE /\ load_overrides(wifi_overrides_conf') = EmptyMap
            /\ load_tx_power_overrides(wifi_txpower_conf') = EmptyMap]_vars

\* A clear of the first interface answered ok:true: the type store was
\* rewritten and keeps the second interface, the power store writer
\* returned true and its file ends before the line of the second
\* interface is complete, whose entries are gone with those of the first.
C8_OtherInterfaceLost ==
  /\ request.type = "sysutil.wifi.update"
  /\ request.line = [UpdateLine EXCEPT !.action = Some(A_clear),
                                       !.interface = Some(I_wlan0)]
  /\ handled = 1
  /\ response.ok
  /\ calls.write_tx_power_overrides = "ok"
  /\ DOMAIN stored_overrides = {I_wlan1}
  /\ I_wlan1 \notin DOMAIN stored_tx_overrides

\* C9: a set that carries an override_type and a power field attempts the
\* power store write whether or not the type store write failed, and answers
\* ok:true only if both attempted writes succeeded.
C9_BothWritesAttempted ==
  [][(/\ UpdateHandled
      /\ request'.line.action = Some(A_set)
      /\ NamesInterface(request'.line)
      /\ has_override_type(request'.line)
      /\ has_tx_fields(request'.line)) =>
       /\ calls'.write_overrides # "none"
       /\ calls'.write_tx_power_overrides # "none"
       /\ response'.ok =>
            (calls'.write_overrides = "ok" /\ calls'.write_tx_power_overrides = "ok")]_vars

\* The type store write failed, the power store write was made and
\* succeeded, and the answer is ok:false.
C9_PowerWrittenAfterTypeFailed ==
  /\ request.type = "sysutil.wifi.update"
  /\ request.line = [BothShape EXCEPT !.action = Some(A_set), !.interface = Some(I_wlan0)]
  /\ calls.write_overrides = "failed"
  /\ calls.write_tx_power_overrides = "ok"
  /\ response.ok = FALSE
  /\ I_wlan0 \in DOMAIN stored_tx_overrides
  /\ stored_tx_overrides[I_wlan0].card_name = V_Rig
  /\ I_wlan0 \notin DOMAIN stored_overrides

\* C10: an update answered ok recomputes the card list from the stores as
\* the update left them and answers with that list; an update answered not
\* ok leaves the card list alone and answers with the action and no cards.
C10_RefreshBeforeResponse ==
  [][UpdateHandled =>
       IF response'.ok
       THEN /\ calls'.refresh_wifi_info
            /\ g_wifi_cards' = refresh_wifi_info(wifi_overrides_conf', wifi_txpower_conf',
                                                 wifi_cards_json')
            /\ response'.has_cards
            /\ response'.cards = g_wifi_cards'
       ELSE /\ ~calls'.refresh_wifi_info
            /\ g_wifi_cards' = g_wifi_cards
            /\ ~response'.has_cards
            /\ response'.action = value_or(request'.line.action, A_refresh)]_vars

\* An accepted set of a type override: the list in the answer already shows
\* the card disabled.
C10_AnswerShowsNewOverride ==
  /\ request.type = "sysutil.wifi.update"
  /\ request.line = [UpdateLine EXCEPT !.action = Some(A_set),
                                       !.interface = Some(I_wlan0),
                                       !.override_type = Some(V_disabled)]
  /\ response.ok /\ response.has_cards
  /\ calls.refresh_wifi_info
  /\ response.cards = g_wifi_cards
  /\ g_wifi_cards[1].interface_name = I_wlan0
  /\ g_wifi_cards[1].disabled
(***************************************************************************)
(* Link control: refusals and relayed answers.                            *)
(***************************************************************************)
\* The text of a response line carrying ok:false and the message.
refusal_line(message) ==
  J_response_open \o J_false \o J_message \o message \o <<"\"", "}", "\n">>

\* Nothing reached the control socket.
NothingSent ==
  ctl.pc = "idle" /\ ctl.sockets = 0 /\ ctl.payload = <<>> /\ ctl.offset = 0

NoFieldPresent(line) ==
  /\ ~line.interface.has_value /\ ~line.frequency_mhz.has_value
  /\ ~line.channel_width_mhz.has_value /\ ~line.mcs_index.has_value
  /\ ~line.tx_power_mw.has_value /\ ~line.tx_power_index.has_value
  /\ ~line.power_level.has_value

AsksWidth40(line) ==
  line.channel_width_mhz.has_value /\ line.channel_width_mhz.value = 40

\* C11: a sysutil.link.control line with no RF field at all, or with
\* channel_width_mhz = 40 whatever the other fields are, is answered ok:false
\* with the fixed message of its case, and nothing is sent to the control
\* socket.
C11_RefusedWithoutSending ==
  /\ (handled > 0 /\ NoFieldPresent(link_request)) =>
        /\ ~link_response.ok
        /\ link_response.message = M_no_rf_values
        /\ link_response.line = refusal_line(M_no_rf_values)
        /\ NothingSent
  /\ AsksWidth40(link_request) =>
        /\ handled > 0
        /\ ~link_response.ok
        /\ link_response.message = M_width_40_disabled
        /\ link_response.line = refusal_line(M_width_40_disabled)
        /\ NothingSent

\* A line asking for width 40 together with an interface, a frequency and a
\* level has been refused.
C11_Width40RefusedAmongOthers ==
  /\ AsksWidth40(link_request)
  /\ link_request.interface = Some(I_wlan0)
  /\ link_request.frequency_mhz.has_value
  /\ link_request.power_level = Some(V_high)
  /\ handled = 1
  /\ ~link_response.ok

\* What the peer lines of the scenarios say: ok and message, when present.
peer_says(line) ==
  IF line = R_ok_true THEN [ok |-> Some(TRUE), message |-> Nothing]
  ELSE IF line = R_ok_false THEN [ok |-> Some(FALSE), message |-> Nothing]
  ELSE IF line = R_ok_false_busy THEN [ok |-> Some(FALSE), message |-> Some(V_busy)]
  ELSE IF line = R_ok_false_blank THEN [ok |-> Some(FALSE), message |-> Some(<<>>)]
  ELSE IF line = R_ok_true_applied THEN [ok |-> Some(TRUE), message |-> Some(V_applied)]
  ELSE IF line = R_message_only THEN [ok |-> NoBool, message |-> Some(V_later)]
  ELSE [ok |-> NoBool, message |-> Nothing]

\* The request was forwarded and its response has been built.
Relayed == handled > 0 /\ ctl.pc = "idle" /\ ctl.exit # "none"

\* C12: for a forwarded request, no peer response gives ok:false with
\* "OpenHD control socket not available."; a peer line without ok gives
\* ok:false; ok false with no message gives "OpenHD rejected the RF update.";
\* otherwise the peer's ok and message are relayed; ok is true only when the
\* peer said ok true.
C12_PeerAnswerRelayed ==
  Relayed =>
    IF ~ctl.response.has_value
    THEN ~link_response.ok /\ link_response.message = M_socket_not_available
    ELSE \A peer \in {peer_says(ctl.response.value)} :
           /\ link_response.ok = (peer.ok.has_value /\ peer.ok.value)
           /\ link_response.message =
                IF peer.message.has_value /\ peer.message.value # <<>>
                THEN peer.message.value
                ELSE IF link_response.ok THEN <<>> ELSE M_rejected

\* A peer line with a message and no ok has been relayed as a refusal that
\* keeps the peer's message.
C12_MessageWithoutOkRelayed ==
  /\ Relayed
  /\ ctl.response = Some(R_message_only)
  /\ ~link_response.ok
  /\ link_response.message = V_later

(***************************************************************************)
(* The control channel.                                                    *)
(***************************************************************************)
RoundTripOver == ctl.pc \in {"returned", "idle"} /\ ctl.exit # "none"

\* C13: on every path of send_openhd_control that returns after the socket
\* was created, the socket has been closed exactly once before the return,
\* and it is not closed while the round trip is still running.
C13_SocketClosedOnce ==
  /\ (RoundTripOver /\ ctl.sockets > 0) => (~ctl.fd_open /\ ctl.closes = 1)
  /\ (RoundTripOver /\ ctl.sockets = 0) => (~ctl.fd_open /\ ctl.closes = 0)
  /\ ctl.pc \in {"send", "read"} => (ctl.fd_open /\ ctl.closes = 0 /\ ctl.sockets = 1)

\* write_all failed after part of the request was written, and the socket
\* has been closed.
C13_ClosedAfterSendFailure ==
  /\ ctl.pc = "returned"
  /\ ctl.exit = "send_failed"
  /\ ctl.offset > 0
  /\ ctl.sockets = 1
  /\ ctl.closes = 1

\* C14: the round trip of send_openhd_control, write phase and read phase
\* together, never lasts longer than the fixed deadline.
C14_RoundTripWithinDeadline ==
  ctl.pc # "idle" => ctl.now - ctl.started <= kOpenHdControlTimeout

\* The deadline has passed and send_openhd_control is still in write_all,
\* with bytes left to send.
C14_StillSendingAfterDeadline ==
  /\ ctl.pc = "send"
  /\ ctl.offset < Len(ctl.payload)
  /\ ctl.now - ctl.started > kOpenHdControlTimeout

\* line is what the buffer holds before its first newline.
before_first_newline(buffer, line) ==
  \E n \in 1..Len(buffer) :
     /\ buffer[n] = "\n"
     /\ line = SubSeq(buffer, 1, n - 1)
     /\ \A i \in 1..Len(line) : line[i] # "\n"

\* C19: read_line_with_timeout returns a line only when a newline was
\* received, the line being the accumulated bytes before the first newline
\* and never longer than 4096 bytes; it returns no response when the peer
\* closes, when polling fails, when the deadline passes and when the
\* accumulated bytes reach the ceiling without a terminator.
C19_LineOrNoResponse ==
  RoundTripOver =>
    /\ ctl.response.has_value =>
         /\ ctl.exit = "line"
         /\ before_first_newline(ctl.buffer, ctl.response.value)
         /\ Len(ctl.response.value) <= kMaxControlLineLength
    /\ ctl.exit \in {"peer_closed", "poll_failed", "recv_failed", "deadline",
                     "timeout", "line_too_long"} => ~ctl.response.has_value

\* A line longer than the ceiling has been returned.
C19_OverlongLineReturned ==
  /\ ctl.pc = "returned"
  /\ ctl.exit = "line"
  /\ ctl.response.has_value
  /\ Len(ctl.response.value) > kMaxControlLineLength

(***************************************************************************)
(* Type overrides.                                                         *)
(***************************************************************************)
DisabledSpellings == {S_DISABLED, V_disabled, V_Disabled}

\* Type names of the scenarios that begin with OPENHD_ in any case.
OpenhdTypes ==
  {S_OPENHD_RTL_88X2EU, S_OPENHD_RTL_88X2AU, V_openhd_rtl_88x2eu, V_openhd_x}

\* C15: for every interface and type-override store, a card without an
\* override entry has effective_type = detected_type and is not disabled; an
\* override DISABLED in any case disables it and keeps effective_type =
\* detected_type; any other override leaves it enabled with the override as
\* effective_type, verbatim.  has_openhd_wifibroadcast_cards never counts a
\* disabled card.
C15_EffectiveType ==
  /\ g_wifi_initialized =>
       \A overrides \in {stored_overrides} :
       \A i \in 1..Len(g_wifi_cards) :
       \A card \in {g_wifi_cards[i]} :
         IF card.interface_name \notin DOMAIN overrides
         THEN /\ card.effective_type = card.detected_type
              /\ ~card.disabled
              /\ card.override_type = <<>>
         ELSE IF overrides[card.interface_name] \in DisabledSpellings
         THEN /\ card.disabled
              /\ card.effective_type = card.detected_type
         ELSE /\ ~card.disabled
              /\ card.effective_type = overrides[card.interface_name]
  /\ wifibroadcast.called =>
       wifibroadcast.value =
         \E i \in 1..Len(g_wifi_cards) :
            /\ ~g_wifi_cards[i].disabled
            /\ g_wifi_cards[i].effective_type \in OpenhdTypes

\* The OpenHD adapter is disabled in lower case, the other card carries an
\* OpenHD type by override, and only that one is counted.
C15_DisabledAdapterNotCounted ==
  /\ wifibroadcast.called
  /\ wifibroadcast.value
  /\ Len(g_wifi_cards) = 2
  /\ g_wifi_cards[1].disabled
  /\ g_wifi_cards[1].override_type = V_disabled
  /\ g_wifi_cards[1].effective_type = S_OPENHD_RTL_88X2EU
  /\ ~g_wifi_cards[2].disabled
  /\ g_wifi_cards[2].effective_type = V_openhd_x

(***************************************************************************)
(* Symbolic power levels.                                                  *)
(***************************************************************************)
\* The figure of the profile a level names, 0 for any other level.
level_figure(profile, level) ==
  IF level = S_LOWEST THEN profile.lowest_mw
  ELSE IF level = S_LOW THEN profile.low_mw
  ELSE IF level = S_MID THEN profile.mid_mw
  ELSE IF level = S_HIGH THEN profile.high_mw
  ELSE 0

\* Every card of the list whose profile is not FIXED and whose stored level
\* names a positive figure of that profile shows the figure as tx_power.
LevelFigureShown(cards, tx_overrides, profiles) ==
  \A i \in 1..Len(cards) :
  \A card \in {cards[i]} :
  \A profile \in {select_profile(card, tx_overrides, profiles)} :
    (/\ profile # 0
     /\ to_upper(profiles[profile].power_mode) # S_FIXED
     /\ card.interface_name \in DOMAIN tx_overrides
     /\ level_figure(profiles[profile],
                     to_upper(tx_overrides[card.interface_name].power_level)) > 0)
    => card.tx_power =
         to_string(level_figure(profiles[profile],
                                to_upper(tx_overrides[card.interface_name].power_level)))

\* The step computes the card list anew.
Resolves == calls'.refresh_wifi_info /\ wifi_cards_json' = wifi_cards_json

\* C16: whenever the card list is resolved, a card on a non-FIXED profile
\* whose stored power_level, uppercased, is LOWEST, LOW, MID or HIGH with a
\* positive profile figure has that figure, in decimal, as tx_power,
\* whatever raw tx_power is stored; this holds again when the catalog figure
\* was changed and the list is resolved anew, and resolving writes neither
\* override store.
C16_LevelSelectsFigure ==
  [][Resolves =>
       /\ \A profiles \in {load_wifi_card_profiles(wifi_cards_json')},
             tx_overrides \in {load_tx_power_overrides(wifi_txpower_conf')} :
            LevelFigureShown(g_wifi_cards', tx_overrides, profiles)
       /\ StoresUnchanged
       /\ calls'.write_overrides = "none"
       /\ calls'.write_tx_power_overrides = "none"]_vars

\* The catalog's high figure was changed to 800 after the list had been
\* resolved, and a refresh shows 800 for the stored level HIGH although a
\* raw tx_power of 100 is stored.
C16_EditedFigureShown ==
  /\ request.type = "sysutil.wifi.update"
  /\ handled = 2
  /\ response.ok
  /\ Len(response.cards) = 2
  /\ response.cards[1].tx_power = V_800
  /\ response.cards[1].power_level = S_HIGH
  /\ stored_tx_overrides[I_wlan0].tx_power = V_100
  /\ g_wifi_cards = response.cards


(***************************************************************************)
(* The power-override store written and read back.                         *)
(***************************************************************************)
\* The loaded map holds the records of the written map that have a
\* non-empty field, field by field, and no other interface.
Reproduces(written, loaded) ==
  /\ \A iface \in DOMAIN written :
       IF has_tx_power_values(written[iface])
       THEN iface \in DOMAIN loaded /\ loaded[iface] = written[iface]
       ELSE iface \notin DOMAIN loaded
  /\ DOMAIN loaded \subseteq DOMAIN written

\* The step is an update whose call of write_tx_power_overrides succeeded.
PowerStoreWritten ==
  UpdateHandled /\ calls'.write_tx_power_overrides = "ok"

\* C17: whenever an update has written the power-override store, the store
\* loaded from the file holds, for each interface of the written map with a
\* non-empty field, exactly the fields written, and no entry for an
\* interface whose record was all-empty.
C17_StoreRoundTrip ==
  [][PowerStoreWritten =>
       \A written \in {update_plan(request'.line,
                                   load_overrides(wifi_overrides_conf),
                                   load_tx_power_overrides(wifi_txpower_conf),
                                   TRUE, TRUE).tx_overrides},
          loaded \in {load_tx_power_overrides(wifi_txpower_conf')} :
            Reproduces(written, loaded)]_vars

\* A record whose only field is a card_name of one blank was written: its
\* line is in the file, and the file loads as a record with no field at all.
C17_BlankNameNotReproduced ==
  /\ request.type = "sysutil.wifi.update"
  /\ request.line.card_name = Some(V_blank)
  /\ calls.write_tx_power_overrides = "ok"
  /\ \E i \in 1..Len(wifi_txpower_conf) :
       wifi_txpower_conf[i] = I_wlan0 \o W_card_name \o V_blank
  /\ I_wlan0 \in DOMAIN stored_tx_overrides
  /\ stored_tx_overrides[I_wlan0].card_name = <<>>

(***************************************************************************)
(* Profile pins.                                                           *)
(***************************************************************************)
HasPin(record) ==
  record.profile_vendor_id # <<>> /\ record.profile_device_id # <<>>

\* The lookups the resolution makes, as indexes into the catalog (0: none).
detected_lookup(card, profiles) ==
  find_wifi_profile(profiles, card.vendor_id, card.device_id, card.detected_type)

pinned_lookup(card, record, profiles) ==
  find_wifi_profile(profiles, record.profile_vendor_id, record.profile_device_id,
                    IF record.profile_chipset # <<>> THEN record.profile_chipset
                    ELSE card.detected_type)

generic_lookup(record, profiles) ==
  find_wifi_profile(profiles, record.profile_vendor_id, record.profile_device_id, <<>>)

\* The card carries the name and power mode of the profile, or none.
ShowsProfile(card, profiles, profile) ==
  IF profile = 0
  THEN card.card_name = <<>> /\ card.power_mode = <<>>
  ELSE card.card_name = profiles[profile].name
       /\ card.power_mode = profiles[profile].power_mode

PinResolved(card, record, profiles) ==
  IF ~HasPin(record)
  THEN ShowsProfile(card, profiles, detected_lookup(card, profiles))
  ELSE IF pinned_lookup(card, record, profiles) # 0
  THEN ShowsProfile(card, profiles, pinned_lookup(card, record, profiles))
  ELSE IF generic_lookup(record, profiles) # 0
  THEN /\ profiles[generic_lookup(record, profiles)].chipset = <<>>
       /\ ShowsProfile(card, profiles, generic_lookup(record, profiles))
  ELSE ShowsProfile(card, profiles, detected_lookup(card, profiles))

\* C18: every card of the resolved list shows the profile found with the
\* pinned vendor/device and the pinned chipset (the detected type when no
\* chipset is pinned) when its record has both pin IDs; when that lookup
\* finds nothing, a generic profile of the pinned IDs if the lookup with an
\* empty chipset finds one, else the profile of the detected IDs.  A card
\* whose record lacks a pin ID shows the profile of the detected IDs.
C18_PinResolution ==
  g_wifi_initialized =>
    \A tx_overrides \in {stored_tx_overrides}, profiles \in {catalog_profiles} :
      \A i \in 1..Len(g_wifi_cards) :
        PinResolved(g_wifi_cards[i],
                    TxEntry(tx_overrides, g_wifi_cards[i].interface_name), profiles)

\* The second interface is pinned to the first adapter's IDs with no
\* chipset; the catalog holds those IDs under another chipset first and
\* under the second interface's detected type next, and the card shows the
\* latter.
C18_PinnedByDetectedType ==
  /\ g_wifi_initialized
  /\ I_wlan1 \in DOMAIN stored_tx_overrides
  /\ stored_tx_overrides[I_wlan1].profile_vendor_id = S_id_0BDA
  /\ stored_tx_overrides[I_wlan1].profile_device_id = S_id_A81A
  /\ stored_tx_overrides[I_wlan1].profile_chipset = <<>>
  /\ Len(catalog_profiles) = 2
  /\ catalog_profiles[1].chipset = V_OTHER
  /\ catalog_profiles[2].chipset = S_BROADCOM
  /\ g_wifi_cards[2].card_name = ProfileName(2)

(***************************************************************************)
(* The cached card list and the stores.                                    *)
(***************************************************************************)
\* What a refresh computes from the files as they are.
FreshCards == refresh_wifi_info(wifi_overrides_conf, wifi_txpower_conf, wifi_cards_json)

\* C20: the card list wifi_cards() returns equals what a refresh computes
\* from the stores as persisted, after every update whatever it answered,
\* and the list a sysutil.wifi.request reports is that list.
C20_CacheMatchesStores ==
  /\ wifi_cards(g_wifi_initialized, g_wifi_cards, wifi_overrides_conf,
                wifi_txpower_conf, wifi_cards_json) = FreshCards
  /\ request.type = "sysutil.wifi.request" => response.cards = FreshCards

\* After a set whose type write succeeded and whose power write failed, a
\* sysutil.wifi.request reports the first interface enabled while the type
\* store holds it disabled.
C20_StaleListReported ==
  /\ request.type = "sysutil.wifi.request"
  /\ handled = 2
  /\ I_wlan0 \in DOMAIN stored_overrides
  /\ to_upper(stored_overrides[I_wlan0]) = S_DISABLED
  /\ response.cards[1].interface_name = I_wlan0
  /\ ~response.cards[1].disabled
  /\ response.cards[1].override_type = <<>>

(***************************************************************************)
(* A clear whose type store write fails.                                   *)
(***************************************************************************)
\* The power store holds no entry the clear names: the interface, or any
\* entry when the clear names none.
ClearedFromPowerStore(line, tx_overrides) ==
  IF NamesInterface(line)
  THEN line.interface.value \notin DOMAIN tx_overrides
  ELSE DOMAIN tx_overrides = {}

\* C21: a clear whose write of the type-override store fails still attempts
\* the write of the power-override store and answers ok:false; when that
\* write succeeds the entries the clear names are gone from the power
\* store.
C21_ClearWritesIndependently ==
  [][(/\ UpdateHandled
      /\ request'.line.action = Some(A_clear)
      /\ calls'.write_overrides = "failed") =>
       /\ calls'.write_tx_power_overrides # "none"
       /\ ~response'.ok
       /\ calls'.write_tx_power_overrides = "ok" =>
            \A tx_overrides \in {load_tx_power_overrides(wifi_txpower_conf')} :
               ClearedFromPowerStore(request'.line, tx_overrides)]_vars

\* A clear of the first interface whose type store write failed: the power
\* store writer was not called and the store still holds the interface.
C21_PowerStoreKeptAfterTypeFailed ==
  /\ request.type = "sysutil.wifi.update"
  /\ request.line = [UpdateLine EXCEPT !.action = Some(A_clear),
                                       !.interface = Some(I_wlan0)]
  /\ calls.write_overrides = "failed"
  /\ calls.write_tx_power_overrides = "none"
  /\ ~response.ok
  /\ I_wlan0 \in DOMAIN stored_tx_overrides
  /\ stored_tx_overrides[I_wlan0].card_name = V_Rig

(***************************************************************************)
(* The fields of the request sent to the control socket.                   *)
(***************************************************************************)
\* The payload holds the key.
Carries(payload, key) == find_from(payload, key, 1) # 0

\* A string field is present when it has a non-empty value, a number when
\* it has a value.
PresentText(field) == field.has_value /\ field.value # <<>>

\* The payload holds exactly the keys of the fields present in the line.
CarriesFieldsOf(payload, line) ==
  /\ Carries(payload, J_interface) <=> PresentText(line.interface)
  /\ Carries(payload, J_frequency_mhz) <=> line.frequency_mhz.has_value
  /\ Carries(payload, J_channel_width_mhz) <=> line.channel_width_mhz.has_value
  /\ Carries(payload, J_mcs_index) <=> line.mcs_index.has_value
  /\ Carries(payload, J_tx_power_mw) <=> line.tx_power_mw.has_value
  /\ Carries(payload, J_tx_power_index) <=> line.tx_power_index.has_value
  /\ Carries(payload, J_power_level) <=> PresentText(line.power_level)

CarriesSomeField(payload) ==
  \E key \in {J_interface, J_frequency_mhz, J_channel_width_mhz, J_mcs_index,
              J_tx_power_mw, J_tx_power_index, J_power_level} :
     Carries(payload, key)

\* Bytes of a request have been handed to the control socket.
RequestSent == ctl.offset > 0

\* C22: a request of which bytes were sent to the control socket carries
\* at least one RF field besides type, and exactly the fields present in
\* the inbound line.
C22_SentRequestCarriesFields ==
  RequestSent =>
    /\ CarriesSomeField(ctl.payload)
    /\ CarriesFieldsOf(ctl.payload, link_request)

\* The inbound line holds only a power_level of one blank: the request was
\* sent whole and holds the type and nothing else.
C22_BareRequestSent ==
  /\ link_request = [LinkLine EXCEPT !.power_level = Some(V_blank)]
  /\ ctl.payload = J_request_open \o <<"}", "\n">>
  /\ ctl.offset = Len(ctl.payload)
  /\ ctl.pc = "read"
=============================================================================
